---- MODULE Spec2Model ----
(***************************************************************************)
(* Model of the wallet core (utils/crypto: Base58 codec, WIF validation,   *)
(* address derivation, seed derivation, transaction signing).              *)
(*                                                                         *)
(* Representation choices                                                  *)
(*  - A byte sequence (Uint8Array) is a sequence of integers 0..255.       *)
(*  - A JavaScript string is a sequence of one-character strings.          *)
(*  - A BigInt is its minimal big-endian base-256 digit sequence (zero is   *)
(*    the empty sequence): arbitrary precision, as in the source.          *)
(*  - The host primitives crypto.subtle.digest and HMAC are                *)
(*    outside the repository; Sha256 below is a fixed deterministic        *)
(*    32-byte stand-in, Hmac the RFC 2104 construction over it.            *)
(***************************************************************************)
EXTENDS Integers, Sequences, FiniteSets, TLC

(***************************************************************************)
(* Character tables                                                        *)
(***************************************************************************)
ALPHABET ==
  <<"1", "2", "3", "4", "5", "6", "7", "8", "9", "A", "B", "C", "D", "E", "F",
    "G", "H", "J", "K", "L", "M", "N", "P", "Q", "R", "S", "T", "U", "V", "W",
    "X", "Y", "Z", "a", "b", "c", "d", "e", "f", "g", "h", "i", "j", "k", "m",
    "n", "o", "p", "q", "r", "s", "t", "u", "v", "w", "x", "y", "z">>

\* The printable ASCII characters of codes 32..95 and of codes 97..126.
AsciiLow ==
  <<" ", "!", "\"", "#", "$", "%", "&", "'", "(", ")", "*", "+", ",", "-", ".",
    "/", "0", "1", "2", "3", "4", "5", "6", "7", "8", "9", ":", ";", "<", "=",
    ">", "?", "@", "A", "B", "C", "D", "E", "F", "G", "H", "I", "J", "K", "L",
    "M", "N", "O", "P", "Q", "R", "S", "T", "U", "V", "W", "X", "Y", "Z", "[",
    "\\", "]", "^", "_">>

AsciiHigh ==
  <<"a", "b", "c", "d", "e", "f", "g", "h", "i", "j", "k", "l", "m", "n", "o",
    "p", "q", "r", "s", "t", "u", "v", "w", "x", "y", "z", "{", "|", "}", "~">>

\* Digits of Number.prototype.toString(radix), radix <= 16.
RadixDigits ==
  <<"0", "1", "2", "3", "4", "5", "6", "7", "8", "9", "a", "b", "c", "d", "e", "f">>

\* String.prototype.indexOf on a table of characters: 0-based, -1 if absent.
IndexOf(table, ch) ==
  IF \E k \in 1..Len(table) : table[k] = ch
    THEN (CHOOSE k \in 1..Len(table) : table[k] = ch) - 1
    ELSE -1

\* The UTF-8 code of each printable ASCII character (a single byte).
CharCode ==
  [ch \in {AsciiLow[k] : k \in 1..Len(AsciiLow)} \cup {AsciiHigh[k] : k \in 1..Len(AsciiHigh)} |->
     IF IndexOf(AsciiLow, ch) # -1 THEN 32 + IndexOf(AsciiLow, ch)
     ELSE 97 + IndexOf(AsciiHigh, ch)]

\* The sequence f with every element evaluated.
AsSeq(f) == SubSeq(f, 1, Len(f))

\* TextEncoder().encode for strings of printable ASCII characters.
TextEncode(str) == AsSeq([i \in 1..Len(str) |-> CharCode[str[i]]])

(***************************************************************************)
(* Loops.  A loop of the source is an operator XLoop(count, v) on the       *)
(* record v of the loop's variables: it returns v when the loop condition   *)
(* is false and otherwise runs the body XStep, at most count times (count   *)
(* is an upper bound on the iterations).  The count is halved rather than   *)
(* decremented to keep the evaluation shallow.                              *)
(***************************************************************************)

(***************************************************************************)
(* BigInt arithmetic on minimal big-endian base-256 digit sequences        *)
(***************************************************************************)
BigZero == <<>>

MulAddStep(x, m, v) ==
  LET lo == (x[v.i] * m) + v.carry
  IN  [i |-> v.i - 1, carry |-> lo \div 256, out |-> <<lo % 256>> \o v.out]

RECURSIVE MulAddLoop(_, _, _, _)
MulAddLoop(x, m, count, v) ==
  IF count = 0 \/ v.i = 0 THEN v
  ELSE IF count = 1 THEN MulAddStep(x, m, v)
  ELSE MulAddLoop(x, m, count - (count \div 2), MulAddLoop(x, m, count \div 2, v))

\* x * m + a with 0 < m <= 256 and 0 <= a < 256.
BigMulAdd(x, m, a) ==
  LET v == MulAddLoop(x, m, Len(x), [i |-> Len(x), carry |-> a, out |-> <<>>])
  IN  IF v.carry = 0 THEN v.out ELSE <<v.carry>> \o v.out

RECURSIVE StripZeros(_)
StripZeros(q) ==
  IF q # <<>> /\ q[1] = 0 THEN StripZeros(Tail(q)) ELSE q

DivModStep(x, d, v) ==
  LET cur == (v.rem * 256) + x[v.i]
  IN  [i |-> v.i + 1, rem |-> cur % d, quot |-> Append(v.quot, cur \div d)]

RECURSIVE DivModLoop(_, _, _, _)
DivModLoop(x, d, count, v) ==
  IF count = 0 \/ v.i > Len(x) THEN v
  ELSE IF count = 1 THEN DivModStep(x, d, v)
  ELSE DivModLoop(x, d, count - (count \div 2), DivModLoop(x, d, count \div 2, v))

\* x / d (truncating) and x % d for 0 < d <= 256.
BigDivMod(x, d) ==
  LET v == DivModLoop(x, d, Len(x), [i |-> 1, rem |-> 0, quot |-> <<>>])
  IN  [quot |-> StripZeros(v.quot), rem |-> v.rem]

(***************************************************************************)
(* Base58 codec                                                            *)
(***************************************************************************)
\* encodeBase58, lines 13-15: for (i = 0; i < buffer.length; i++).
EncAccumulateStep(buffer, v) ==
  [i |-> v.i + 1, x |-> BigMulAdd(v.x, 256, buffer[v.i + 1])]

RECURSIVE EncAccumulateLoop(_, _, _)
EncAccumulateLoop(buffer, count, v) ==
  IF count = 0 \/ ~(v.i < Len(buffer)) THEN v
  ELSE IF count = 1 THEN EncAccumulateStep(buffer, v)
  ELSE EncAccumulateLoop(buffer, count - (count \div 2),
                         EncAccumulateLoop(buffer, count \div 2, v))

\* encodeBase58, lines 18-21: while (x > 0n).
EncDigitsStep(v) ==
  LET dm == BigDivMod(v.x, 58)
  IN  [x |-> dm.quot, result |-> <<ALPHABET[dm.rem + 1]>> \o v.result]

RECURSIVE EncDigitsLoop(_, _)
EncDigitsLoop(count, v) ==
  IF count = 0 \/ v.x = BigZero THEN v
  ELSE IF count = 1 THEN EncDigitsStep(v)
  ELSE EncDigitsLoop(count - (count \div 2), EncDigitsLoop(count \div 2, v))

\* A variant of EncLeadingZerosStep that counts a leading zero byte without
\* prepending its "1".
EncLeadingZerosStep_Keep(v) ==
  [i |-> v.i + 1, result |-> v.result]

\* encodeBase58, lines 23-25: for (i = 0; i < buffer.length && buffer[i] === 0; i++).
EncLeadingZerosStep(v) ==
  [i |-> v.i + 1, result |-> <<ALPHABET[1]>> \o v.result]

RECURSIVE EncLeadingZerosLoop(_, _, _)
EncLeadingZerosLoop(buffer, count, v) ==
  IF count = 0 \/ ~(v.i < Len(buffer) /\ buffer[v.i + 1] = 0) THEN v
  ELSE IF count = 1 THEN EncLeadingZerosStep(v)
  ELSE EncLeadingZerosLoop(buffer, count - (count \div 2),
                           EncLeadingZerosLoop(buffer, count \div 2, v))

\* A byte sequence of n bytes has at most 2 * n base-58 digits.
encodeBase58(buffer) ==
  LET n      == Len(buffer)
      x      == EncAccumulateLoop(buffer, n, [i |-> 0, x |-> BigZero]).x
      digits == EncDigitsLoop(2 * n, [x |-> x, result |-> <<>>]).result
  IN  EncLeadingZerosLoop(buffer, n, [i |-> 0, result |-> digits]).result

\* The message of the error decodeBase58 throws.
InvalidBase58 == "Invalid Base58 character"

\* A variant of DecAccumulateStep that skips a character that is not in the
\* alphabet and goes on.
DecAccumulateStep_Skip(str, v) ==
  LET charIndex == IndexOf(ALPHABET, str[v.i + 1])
  IN  IF charIndex = -1
        THEN [i |-> v.i + 1, x |-> v.x, threw |-> FALSE]
        ELSE [i |-> v.i + 1, x |-> BigMulAdd(v.x, 58, charIndex), threw |-> FALSE]

\* decodeBase58, lines 35-39: for (i = 0; i < str.length; i++); threw records
\* the throw of line 37, which ends the loop.
DecAccumulateStep(str, v) ==
  LET charIndex == IndexOf(ALPHABET, str[v.i + 1])
  IN  IF charIndex = -1
        THEN [i |-> v.i, x |-> v.x, threw |-> TRUE]
        ELSE [i |-> v.i + 1, x |-> BigMulAdd(v.x, 58, charIndex), threw |-> FALSE]

RECURSIVE DecAccumulateLoop(_, _, _)
DecAccumulateLoop(str, count, v) ==
  IF count = 0 \/ v.threw \/ ~(v.i < Len(str)) THEN v
  ELSE IF count = 1 THEN DecAccumulateStep(str, v)
  ELSE DecAccumulateLoop(str, count - (count \div 2), DecAccumulateLoop(str, count \div 2, v))

\* decodeBase58, lines 42-45: while (x > 0n).
DecBytesStep(v) ==
  LET dm == BigDivMod(v.x, 256)
  IN  [x |-> dm.quot, bytes |-> <<dm.rem>> \o v.bytes]

RECURSIVE DecBytesLoop(_, _)
DecBytesLoop(count, v) ==
  IF count = 0 \/ v.x = BigZero THEN v
  ELSE IF count = 1 THEN DecBytesStep(v)
  ELSE DecBytesLoop(count - (count \div 2), DecBytesLoop(count \div 2, v))

\* A variant of DecLeadingZerosStep that counts a leading "1" without restoring
\* its zero byte.
DecLeadingZerosStep_Skip(v) ==
  [i |-> v.i + 1, bytes |-> v.bytes]

\* decodeBase58, lines 48-50: for (i = 0; i < str.length && str[i] === ALPHABET[0]; i++).
DecLeadingZerosStep(v) ==
  [i |-> v.i + 1, bytes |-> <<0>> \o v.bytes]

\* A variant of DecLeadingZerosLoop that goes through the whole string and
\* restores a zero byte for every "1" in it, leading or not.
RECURSIVE DecLeadingZerosLoop_Ones(_, _, _)
DecLeadingZerosLoop_Ones(str, count, v) ==
  IF count = 0 \/ ~(v.i < Len(str)) THEN v
  ELSE IF count = 1
    THEN IF str[v.i + 1] = ALPHABET[1] THEN DecLeadingZerosStep(v)
         ELSE [v EXCEPT !.i = @ + 1]
  ELSE DecLeadingZerosLoop_Ones(str, count - (count \div 2),
                                DecLeadingZerosLoop_Ones(str, count \div 2, v))

RECURSIVE DecLeadingZerosLoop(_, _, _)
DecLeadingZerosLoop(str, count, v) ==
  IF count = 0 \/ ~(v.i < Len(str) /\ str[v.i + 1] = ALPHABET[1]) THEN v
  ELSE IF count = 1 THEN DecLeadingZerosStep(v)
  ELSE DecLeadingZerosLoop(str, count - (count \div 2),
                           DecLeadingZerosLoop(str, count \div 2, v))

\* [threw |-> FALSE, bytes |-> the decoded bytes], or threw = TRUE when the call
\* throws Error(InvalidBase58).  A string of n characters decodes to at most n bytes.
decodeBase58(str) ==
  LET n   == Len(str)
      acc == DecAccumulateLoop(str, n, [i |-> 0, x |-> BigZero, threw |-> FALSE])
      raw == DecBytesLoop(n, [x |-> acc.x, bytes |-> <<>>]).bytes
  IN  IF acc.threw THEN [threw |-> TRUE, bytes |-> <<>>]
      ELSE [threw |-> FALSE,
            bytes |-> DecLeadingZerosLoop(str, n, [i |-> 0, bytes |-> raw]).bytes]

(***************************************************************************)
(* Host primitives                                                         *)
(***************************************************************************)
DigestLen == 32
HmacBlock == 64

\* mult^k modulo modulus, by squaring.
RECURSIVE PowMod(_, _, _)
PowMod(mult, k, modulus) ==
  IF k = 0 THEN 1
  ELSE LET half == PowMod(mult, k \div 2, modulus)
           sq   == (half * half) % modulus
       IN  IF k % 2 = 0 THEN sq ELSE (sq * mult) % modulus

\* The powers of the two multipliers, tabulated for data of up to 512 bytes.
Pow131 == [k \in 0..512 |-> PowMod(131, k, 30011)]
Pow137 == [k \in 0..512 |-> PowMod(137, k, 30071)]

\* The polynomial sum of (data[i] + 1) * mult^(hi - i) over lo..hi, modulo
\* modulus, with pow[k] = mult^k.
RECURSIVE Poly(_, _, _, _, _)
Poly(data, lo, hi, pow, modulus) ==
  IF lo > hi THEN 0
  ELSE IF lo = hi THEN (data[lo] + 1) % modulus
  ELSE LET mid == (lo + hi) \div 2
       IN  ((Poly(data, lo, mid, pow, modulus) * pow[hi - mid])
              + Poly(data, mid + 1, hi, pow, modulus)) % modulus

Roll(data, h0, pow, modulus) ==
  ((h0 * pow[Len(data)]) + Poly(data, 1, Len(data), pow, modulus)) % modulus

StreamStep(v) ==
  LET g2 == ((v.g * 75) + 74) % 65537
  IN  [g |-> g2, out |-> Append(v.out, g2 % 256)]

RECURSIVE StreamLoop(_, _)
StreamLoop(count, v) ==
  IF count = 0 \/ v.g < 0 THEN v
  ELSE IF count = 1 THEN StreamStep(v)
  ELSE StreamLoop(count - (count \div 2), StreamLoop(count \div 2, v))

Stream(g, n) == StreamLoop(n, [g |-> g, out |-> <<>>]).out

\* crypto.subtle.digest(SHA-256, data): 32 bytes, a function of data alone.
Sha256(data) ==
  LET h1 == Roll(data, 7, Pow131, 30011)
      h2 == Roll(data, 11, Pow137, 30071)
  IN  <<h1 % 256, h2 % 256, h1 \div 256, h2 \div 256>>
        \o Stream((h1 + (3 * h2)) % 65537, DigestLen - 4)

RECURSIVE XorBits(_, _, _)
XorBits(a, b, n) ==
  IF n = 0 THEN 0
  ELSE (((a % 2) + (b % 2)) % 2) + 2 * XorBits(a \div 2, b \div 2, n - 1)

\* b XOR 0x36 and b XOR 0x5c for every byte b.
XorIpad == [b \in 0..255 |-> XorBits(b, 54, 8)]
XorOpad == [b \in 0..255 |-> XorBits(b, 92, 8)]

\* crypto.subtle.sign(HMAC, key, data) with hash SHA-256 (RFC 2104), for keys no
\* longer than one block.
Hmac(key, data) ==
  LET padded == AsSeq([i \in 1..HmacBlock |-> IF i <= Len(key) THEN key[i] ELSE 0])
      ipad   == AsSeq([i \in 1..HmacBlock |-> XorIpad[padded[i]]])
      opad   == AsSeq([i \in 1..HmacBlock |-> XorOpad[padded[i]]])
  IN  Sha256(opad \o Sha256(ipad \o data))

(***************************************************************************)
(* JavaScript library functions used by the core                           *)
(***************************************************************************)
Min(a, b) == IF a < b THEN a ELSE b

\* Uint8Array.prototype.slice(from, to): 0-based, to exclusive, clamped.
Slice(bytes, from, to) == SubSeq(bytes, from + 1, Min(to, Len(bytes)))

\* String.prototype.substring(0, to).
Substring0(str, to) == SubSeq(str, 1, Min(to, Len(str)))

\* Number.prototype.toString(radix) of a non-negative integer.
RECURSIVE NumToString(_, _)
NumToString(n, radix) ==
  IF n < radix THEN <<RadixDigits[n + 1]>>
  ELSE NumToString(n \div radix, radix) \o <<RadixDigits[(n % radix) + 1]>>

\* String.prototype.padStart(len, ch).
RECURSIVE PadStart(_, _, _)
PadStart(str, len, ch) ==
  IF Len(str) >= len THEN str ELSE PadStart(<<ch>> \o str, len, ch)

\* b => b.toString(16).padStart(2, "0"), for a byte b.
ByteHex(b) == PadStart(NumToString(b, 16), 2, "0")

\* The bytes mapped by ByteHex and joined.
HexOf(bytes) ==
  AsSeq([i \in 1..(2 * Len(bytes)) |-> ByteHex(bytes[(i + 1) \div 2])[2 - (i % 2)]])

\* Array.prototype.reverse.
Reverse(bytes) == AsSeq([i \in 1..Len(bytes) |-> bytes[Len(bytes) + 1 - i]])

(***************************************************************************)
(* Amounts.  A JavaScript number that is a non-negative dyadic rational is  *)
(* the record [num, den] with den a power of two: such a value is an exact  *)
(* double, and so is its product with 100000000 for the amounts sampled.    *)
(***************************************************************************)
RECURSIVE FracDigits(_, _)
FracDigits(rem, den) ==
  IF rem = 0 THEN <<>>
  ELSE <<RadixDigits[((rem * 10) \div den) + 1]>> \o FracDigits((rem * 10) % den, den)

\* `${amount}`: Number::toString of a dyadic value that is 0 or in [1e-6, 1e21).
AmountToString(amount) ==
  LET whole == NumToString(amount.num \div amount.den, 10)
      frac  == FracDigits(amount.num % amount.den, amount.den)
  IN  IF frac = <<>> THEN whole ELSE whole \o <<".">> \o frac

(***************************************************************************)
(* Doubles.  A non-negative finite double is [mant, exp]: the BigInt mant    *)
(* (of at most 53 bits) times 2^exp.  An integer that may exceed 53 bits is  *)
(* its sequence of bits, most significant first (zero is the empty one).     *)
(***************************************************************************)
\* The double equal to the dyadic amount [num, den].
RECURSIVE NatDigits(_)
NatDigits(n) == IF n = 0 THEN <<>> ELSE Append(NatDigits(n \div 256), n % 256)

RECURSIVE Log2(_)
Log2(n) == IF n <= 1 THEN 0 ELSE 1 + Log2(n \div 2)

ToDouble(amount) == [mant |-> NatDigits(amount.num), exp |-> -Log2(amount.den)]

ByteBits == [b \in 0..255 |-> [i \in 1..8 |-> (b \div (2 ^ (8 - i))) % 2]]

RECURSIVE StripZeroBits(_)
StripZeroBits(bits) ==
  IF bits = <<>> \/ bits[1] = 1 THEN bits ELSE StripZeroBits(Tail(bits))

\* The bits of a BigInt.
BitsOf(x) ==
  StripZeroBits(AsSeq([i \in 1..(8 * Len(x)) |-> ByteBits[x[((i - 1) \div 8) + 1]][((i - 1) % 8) + 1]]))

\* bits + 1.
RECURSIVE BitInc(_)
BitInc(bits) ==
  IF bits = <<>> THEN <<1>>
  ELSE IF bits[Len(bits)] = 0 THEN SubSeq(bits, 1, Len(bits) - 1) \o <<1>>
  ELSE BitInc(SubSeq(bits, 1, Len(bits) - 1)) \o <<0>>

\* The integer bits rounded to 53 significant bits, ties to even (the rounding
\* of one double operation).
Round53(bits) ==
  IF Len(bits) <= 53 THEN bits
  ELSE LET kept  == SubSeq(bits, 1, 53)
           rest  == SubSeq(bits, 54, Len(bits))
           above == \E i \in 2..Len(rest) : rest[i] = 1
           up    == rest[1] = 1 /\ (above \/ kept[53] = 1)
       IN  (IF up THEN BitInc(kept) ELSE kept) \o AsSeq([i \in 1..Len(rest) |-> 0])

\* The integer part of bits * 2^exp.
FloorShift(bits, exp) ==
  IF bits = <<>> THEN <<>>
  ELSE IF exp >= 0 THEN bits \o AsSeq([i \in 1..exp |-> 0])
  ELSE IF -exp >= Len(bits) THEN <<>>
  ELSE SubSeq(bits, 1, Len(bits) + exp)

\* Math.floor(amount * 100000000): the exact product, rounded once to a
\* double, then floored.
Sats(double) ==
  LET product == BigMulAdd(BigMulAdd(BigMulAdd(BigMulAdd(double.mant, 100, 0), 100, 0), 100, 0), 100, 0)
  IN  FloorShift(Round53(BitsOf(product)), double.exp)

\* Number.prototype.toString(16) of a non-negative integer.
HexOfBits(bits) ==
  IF bits = <<>> THEN <<"0">>
  ELSE LET pad    == AsSeq([i \in 1..((4 - (Len(bits) % 4)) % 4) |-> 0]) \o bits
           nibble(j) == (8 * pad[(4 * j) - 3]) + (4 * pad[(4 * j) - 2])
                          + (2 * pad[(4 * j) - 1]) + pad[4 * j]
       IN  AsSeq([j \in 1..(Len(pad) \div 4) |-> RadixDigits[nibble(j) + 1]])

\* signSequestrationTx, line 179: amountSats.
AmountHex(double) == PadStart(HexOfBits(Sats(double)), 16, "0")

(***************************************************************************)
(* The core functions as functions of their arguments (every host call      *)
(* resolving), built from the pieces the asynchronous steps below also use. *)
(***************************************************************************)
\* new Uint8Array(n)
NewUint8Array(n) == AsSeq([i \in 1..n |-> 0])

\* target.set(source, offset), for a source that fits.
SetAt(target, source, offset) ==
  AsSeq([i \in 1..Len(target) |->
           IF i > offset /\ i <= offset + Len(source) THEN source[i - offset] ELSE target[i]])

doubleSha256(data) == Sha256(Sha256(data))

\* A variant of ValidateRejectsEarly without the test of line 72.
ValidateRejectsEarly_NoFlag(decoded) ==
  \/ Len(decoded) # 38
  \/ decoded[1] # 128

\* validateWIF, lines 70-72: TRUE when the decoded bytes are rejected before
\* any checksum is computed.
ValidateRejectsEarly(decoded) ==
  \/ Len(decoded) # 38
  \/ decoded[1] # 128
  \/ decoded[34] # 1

\* A variant of ChecksumMatches whose loop stops one byte early.
ChecksumMatches_Three(checksum, calculatedChecksum) ==
  \A i \in 0..2 : checksum[i + 1] = calculatedChecksum[i + 1]

\* validateWIF, lines 78-81: the comparison loop.
ChecksumMatches(checksum, calculatedChecksum) ==
  \A i \in 0..3 : checksum[i + 1] = calculatedChecksum[i + 1]

validateWIF(wif) ==
  LET decoded == decodeBase58(wif)
  IN  IF decoded.threw THEN FALSE
      ELSE IF ValidateRejectsEarly(decoded.bytes) THEN FALSE
      ELSE ChecksumMatches(Slice(decoded.bytes, 34, 38),
                           Slice(doubleSha256(Slice(decoded.bytes, 0, 34)), 0, 4))

\* deriveAddressFromPrivKey, lines 98-101.
AddressPayload(hash160) == SetAt(SetAt(NewUint8Array(21), <<0>>, 0), hash160, 1)

\* A variant of AddressBuffer that writes the checksum one byte early, over
\* the last byte of the payload.
AddressBuffer_Shifted(payload, checksum) == SetAt(SetAt(NewUint8Array(25), payload, 0), checksum, 20)

\* deriveAddressFromPrivKey, lines 104-106.
AddressBuffer(payload, checksum) == SetAt(SetAt(NewUint8Array(25), payload, 0), checksum, 21)

\* The 25 bytes deriveAddressFromPrivKey encodes.
AddressBlob(privKey) ==
  LET pubKey  == Sha256(privKey)
      hash160 == Slice(Sha256(pubKey), 0, 20)
      payload == AddressPayload(hash160)
  IN  AddressBuffer(payload, Slice(doubleSha256(payload), 0, 4))

deriveAddressFromPrivKey(privKey) == encodeBase58(AddressBlob(privKey))

InvalidWIF == "Invalid WIF"

\* [threw |-> TRUE, error |-> InvalidWIF], or the address returned.
deriveAddressFromWIF(wif) ==
  IF ~validateWIF(wif) THEN [threw |-> TRUE, error |-> InvalidWIF, value |-> <<>>]
  ELSE [threw |-> FALSE, error |-> "",
        value |-> deriveAddressFromPrivKey(Slice(decodeBase58(wif).bytes, 1, 33))]

AddressTag ==
  <<"V", "E", "R", "I", "T", "A", "S", "_", "P", "S", "I", "_", "S", "T", "O", "C",
    "H", "A", "S", "T", "I", "C", "_", "F", "L", "U", "X", "_", "9", "5", "8", ".",
    "3", "1", "2", "1", "0", "8">>

WifTag ==
  <<"S", "E", "C", "_", "K", "E", "Y", "_", "D", "E", "R", "I", "V", "A", "T", "I",
    "O", "N", "_", "A", "C", "T", "I", "V", "E", "_", "U", "N", "T", "R", "A", "M",
    "M", "E", "L", "L", "E", "D">>

\* generateVeritasAddress, line 127.
AddressEntropy(seed) == TextEncode(seed \o AddressTag)

generateVeritasAddress(seed) == deriveAddressFromPrivKey(Sha256(AddressEntropy(seed)))

\* deriveWIF, line 136.
WifEntropy(seed) == TextEncode(seed \o WifTag)

\* A variant of WifPayload without the assignment of line 143.
WifPayload_NoFlag(privKey) == SetAt(SetAt(NewUint8Array(34), <<128>>, 0), privKey, 1)

\* deriveWIF, lines 139-144.
WifPayload(privKey) == SetAt(SetAt(SetAt(NewUint8Array(34), <<128>>, 0), privKey, 1), <<1>>, 33)

\* deriveWIF, lines 147-149.
WifBuffer(payload, checksum) == SetAt(SetAt(NewUint8Array(38), payload, 0), checksum, 34)

\* The 38 bytes deriveWIF encodes.
WifBlob(privKey) ==
  LET payload == WifPayload(privKey)
  IN  WifBuffer(payload, Slice(doubleSha256(payload), 0, 4))

deriveWIF(seed) == encodeBase58(WifBlob(Sha256(WifEntropy(seed))))

InvalidWIFKey == "Invalid WIF key. Signing rejected."

\* A variant of TxData that leaves the clock reading out of the signed text.
TxData_NoClock(amount, destination, now) ==
  TextEncode(AmountToString(amount) \o <<":">> \o destination \o <<":">>)

\* signSequestrationTx, line 174, with now the value Date.now() returned.
TxData(amount, destination, now) ==
  TextEncode(AmountToString(amount) \o <<":">> \o destination \o <<":">> \o NumToString(now, 10))

\* signSequestrationTx, line 176.
SignatureHex(signatureBuffer) == HexOf(signatureBuffer)

\* signSequestrationTx, lines 179-180.
RawTx(signature, amount, destination) ==
  LET amountSats == AmountHex(ToDouble(amount))
  IN  <<"0", "2", "0", "0", "0", "0", "0", "0", "0", "1">>
        \o Substring0(signature, 64)
        \o <<"0", "0", "0", "0", "0", "0", "0", "0", "f", "f", "f", "f", "f", "f", "f", "f", "0", "1">>
        \o amountSats
        \o <<"1", "9", "7", "6", "a", "9", "1", "4">>
        \o Substring0(destination, 40)
        \o <<"8", "8", "a", "c", "0", "0", "0", "0", "0", "0", "0", "0">>

\* signSequestrationTx, line 183, from the double digest of the encoded rawTx.
TxId(digest) == HexOf(Reverse(digest))

\* [threw |-> TRUE, error |-> InvalidWIFKey], or the record returned.
signSequestrationTx(wif, amount, destination, now) ==
  IF ~validateWIF(wif) THEN [threw |-> TRUE, error |-> InvalidWIFKey, value |-> <<>>]
  ELSE LET privKeyBytes == Slice(decodeBase58(wif).bytes, 1, 33)
           signature    == SignatureHex(Hmac(privKeyBytes, TxData(amount, destination, now)))
           rawTx        == RawTx(signature, amount, destination)
       IN  [threw |-> FALSE, error |-> "",
            value |-> [txid |-> TxId(doubleSha256(TextEncode(rawTx))),
                       raw |-> rawTx, signature |-> signature]]

(***************************************************************************)
(* Inputs                                                                  *)
(***************************************************************************)
Seed1 == <<>>
Seed2 == <<"0", ".", "5">>
Seeds == {Seed1, Seed2}

\* The keys deriveWIF returns for Seed1 and Seed2.
Wif1 ==
  <<"L", "5", "A", "6", "a", "u", "J", "9", "8", "4", "c", "e", "9", "c", "e", "8", "W", "u",
    "n", "p", "f", "B", "n", "K", "B", "f", "8", "P", "e", "W", "h", "S", "2", "h", "o", "r",
    "A", "b", "G", "z", "1", "f", "v", "7", "W", "k", "M", "j", "2", "c", "W", "C">>
Wif2 ==
  <<"L", "5", "f", "q", "k", "U", "J", "k", "c", "P", "X", "v", "L", "x", "g", "c", "8", "8",
    "2", "D", "9", "i", "9", "p", "P", "J", "p", "Q", "8", "F", "s", "n", "P", "7", "k", "8",
    "T", "u", "d", "k", "N", "8", "t", "X", "j", "F", "U", "f", "T", "j", "j", "u">>

\* Wif1 with the last checksum byte of its blob raised by one.
BadChecksumKey ==
  <<"L", "5", "A", "6", "a", "u", "J", "9", "8", "4", "c", "e", "9", "c", "e", "8", "W", "u",
    "n", "p", "f", "B", "n", "K", "B", "f", "8", "P", "e", "W", "h", "S", "2", "h", "o", "r",
    "A", "b", "G", "z", "1", "f", "v", "7", "W", "k", "M", "j", "2", "c", "W", "D">>

\* A checksummed 38-byte blob whose version byte is 0x00.
BadVersionKey ==
  <<"1", "8", "w", "P", "Q", "F", "A", "z", "i", "P", "M", "3", "R", "N", "w", "o", "j", "D",
    "G", "W", "k", "u", "f", "y", "L", "3", "Q", "t", "n", "w", "z", "P", "C", "A", "5", "A",
    "Y", "S", "v", "s", "A", "R", "T", "1", "U", "N", "r", "S", "c", "t", "X", "5">>

\* A checksummed 38-byte blob whose compressed flag is 0x00.
BadFlagKey ==
  <<"L", "5", "A", "6", "a", "u", "J", "9", "8", "4", "c", "e", "9", "c", "e", "8", "W", "u",
    "n", "p", "f", "B", "n", "K", "B", "f", "8", "P", "e", "W", "h", "S", "2", "h", "o", "r",
    "A", "b", "G", "z", "1", "f", "v", "7", "W", "k", "D", "h", "4", "Z", "p", "m">>

\* A checksummed 37-byte blob (no compressed flag).
ShortKey ==
  <<"5", "K", "c", "b", "L", "v", "5", "n", "o", "1", "N", "D", "V", "g", "o", "2", "F", "U",
    "p", "Y", "B", "v", "C", "B", "1", "b", "v", "L", "B", "K", "4", "G", "e", "6", "A", "i",
    "3", "d", "K", "8", "2", "W", "f", "K", "F", "5", "U", "C", "8", "a", "b">>

\* Wif1 with its second character replaced by a character outside the alphabet.
BadCharKey ==
  <<"L", "0", "A", "6", "a", "u", "J", "9", "8", "4", "c", "e", "9", "c", "e", "8", "W", "u",
    "n", "p", "f", "B", "n", "K", "B", "f", "8", "P", "e", "W", "h", "S", "2", "h", "o", "r",
    "A", "b", "G", "z", "1", "f", "v", "7", "W", "k", "M", "j", "2", "c", "W", "C">>

EmptyKey == <<>>

KeyStrings ==
  {Wif1, Wif2, BadChecksumKey, BadVersionKey, BadFlagKey, ShortKey, BadCharKey, EmptyKey}

\* The address deriveAddressFromWIF returns for Wif1.
Address1 ==
  <<"1", "4", "A", "6", "4", "V", "n", "4", "N", "f", "K", "f", "E", "y", "c", "M", "d", "W",
    "w", "7", "d", "f", "9", "C", "i", "H", "1", "7", "Z", "w", "H", "k", "S", "g">>
Destinations == {Address1}

Amounts == {[num |-> 3, den |-> 2], [num |-> 1, den |-> 512]}

MaxClock == 2
ClockReadings == 1..MaxClock

(***************************************************************************)
(* Tabulated decoding.  The steps below decode only the key strings; the    *)
(* table is evaluated once.                                                 *)
(***************************************************************************)
Base58Decoded == [str \in KeyStrings |-> decodeBase58(str)]

\* decodeBase58(str)
Decode(str) == IF str \in KeyStrings THEN Base58Decoded[str] ELSE decodeBase58(str)

(***************************************************************************)
(* State.  The core keeps no state of its own: call[c] is the activation    *)
(* record of call c (its arguments, its position, its locals, its           *)
(* outcome), together with counts of the host calls it has made.            *)
(* codec holds the input and the results of a codec round trip.             *)
(***************************************************************************)
VARIABLES call, codec, app

vars == <<call, codec, app>>

\* Two calls may be in flight at once.
Calls == {1, 2}

\* The reason a failing host primitive rejects with.
HostError == "HostError"

NoTx == [txid |-> <<>>, raw |-> <<>>, signature |-> <<>>]

IdleCall ==
  [op |-> "none", pc |-> "idle",
   wif |-> <<>>, seed |-> <<>>, amount |-> [num |-> 0, den |-> 1], destination |-> <<>>,
   site |-> "none", data |-> <<>>, first |-> <<>>, digest |-> <<>>,
   decoded |-> <<>>, payload |-> <<>>, checksum |-> <<>>, isValid |-> FALSE,
   privKey |-> <<>>, pubKey |-> <<>>,
   now |-> 0, clockReads |-> 0, txData |-> <<>>, signature |-> <<>>, rawTx |-> <<>>,
   bool |-> FALSE, str |-> <<>>, tx |-> NoTx, error |-> "",
   digests |-> 0, keyed |-> 0, hostFailed |-> FALSE, concurrent |-> FALSE]

IdleCodec == [phase |-> "idle", bytes |-> <<>>, str |-> <<>>, decoded |-> [threw |-> FALSE, bytes |-> <<>>]]

\* No staged transaction (activeTx === null).
NoActiveTx == [serial |-> 0, amount |-> 0]

\* The placeholders of vault.address and vault.wif (line 28).
Generating == <<"G", "E", "N", "E", "R", "A", "T", "I", "N", "G", ".", ".", ".">>
Deriving == <<"D", "E", "R", "I", "V", "I", "N", "G", ".", ".", ".">>

\* The state of the App component (src/App.tsx) after its first render: the
\* useState values of lines 15-46 that the vault and the transaction workflow
\* read, the activations and timers in flight, and four counters kept for the
\* properties (blocks generated, transactions staged, serials aborted, recovery
\* attempts made).  A block is [id, carbonSaved]; a transaction is
\* [serial, amount]; recoveryError is <<>> for null, or <<message>>.
IdleApp ==
  [ address               |-> Generating,
    wif                   |-> Deriving,
    isRecoveryOpen        |-> FALSE,
    recoveryWif           |-> <<>>,
    recoveryError         |-> <<>>,
    recovers              |-> <<>>,
    attempts              |-> 0,
    initDone              |-> FALSE,
    mempool               |-> <<>>,
    activeTx              |-> NoActiveTx,
    txHistory             |-> <<>>,
    totalBalance          |-> 0,
    isRecovering          |-> FALSE,
    isWifValid            |-> FALSE,
    isConfirmingBroadcast |-> FALSE,
    isBroadcasting        |-> FALSE,
    isAutoCollect         |-> FALSE,
    prepares              |-> <<>>,
    recoverTimers         |-> 0,
    broadcasts            |-> <<>>,
    timer                 |-> <<>>,
    blocks                |-> 0,
    staged                |-> 0,
    aborted               |-> {} ]

Init ==
  /\ call = [c \in Calls |-> IdleCall]
  /\ codec = IdleCodec
  /\ app = IdleApp

Finished(c) == call[c].pc \in {"returned", "threw"}

InFlight(c) == call[c].pc \notin {"idle", "returned", "threw"}

\* Calls are numbered in the order they are made.
CanCall(c) ==
  /\ call[c].pc = "idle"
  /\ \A d \in Calls : d < c => call[d].pc # "idle"

\* The activation record of a new call of op; concurrent records that another
\* call was suspended at an await when this one was made.
NewCall(c, op) ==
  [call[c] EXCEPT !.op = op, !.concurrent = \E d \in Calls \ {c} : InFlight(d)]

(***************************************************************************)
(* doubleSha256 (lines 58-62), called from four sites                       *)
(***************************************************************************)
\* The call doubleSha256(data) up to its first await: the first digest is requested.
CallDoubleSha256(f, site, data) ==
  [f EXCEPT !.site = site, !.data = data, !.digests = @ + 1, !.pc = "doubleSha256_first"]

\* Line 59 resolves; line 60 requests the second digest.
doubleSha256_first(c) ==
  /\ call[c].pc = "doubleSha256_first"
  /\ call' = [call EXCEPT ![c] = [@ EXCEPT !.first = Sha256(call[c].data),
                                           !.digests = @ + 1,
                                           !.pc = "doubleSha256_second"]]
  /\ UNCHANGED <<codec, app>>

\* A variant of doubleSha256_second in which the first digest is kept in one
\* place shared by all calls (here the record of call 1).
doubleSha256_second_shared(c) ==
  /\ call[c].pc = "doubleSha256_second"
  /\ call' = [call EXCEPT ![c] = [@ EXCEPT !.digest = Sha256(call[1].first),
                                           !.pc = "resumed"]]
  /\ UNCHANGED <<codec, app>>

\* Line 60 resolves; the digest is returned to the calling site.
doubleSha256_second(c) ==
  /\ call[c].pc = "doubleSha256_second"
  /\ call' = [call EXCEPT ![c] = [@ EXCEPT !.digest = Sha256(call[c].first),
                                           !.pc = "resumed"]]
  /\ UNCHANGED <<codec, app>>

(***************************************************************************)
(* validateWIF (lines 67-85)                                                *)
(***************************************************************************)
\* A variant of EnterValidate without the try of line 68: the throw of
\* decodeBase58 leaves validateWIF.
EnterValidate_Uncaught(f, wif) ==
  LET decoded == Decode(wif)
  IN  IF decoded.threw
        THEN [f EXCEPT !.error = InvalidBase58, !.pc = "threw"]
      ELSE IF ValidateRejectsEarly(decoded.bytes)
        THEN [f EXCEPT !.decoded = decoded.bytes, !.isValid = FALSE, !.pc = "validated"]
      ELSE CallDoubleSha256([f EXCEPT !.decoded = decoded.bytes,
                                      !.payload = Slice(decoded.bytes, 0, 34),
                                      !.checksum = Slice(decoded.bytes, 34, 38)],
                            "validateWIF", Slice(decoded.bytes, 0, 34))

\* Lines 68-76, up to the first await: the key is rejected (decodeBase58 threw
\* and line 82 caught it, or one of lines 70-72 returned false) or its checksum
\* is being computed.
EnterValidate(f, wif) ==
  LET decoded == Decode(wif)
  IN  IF decoded.threw
        THEN [f EXCEPT !.isValid = FALSE, !.pc = "validated"]
      ELSE IF ValidateRejectsEarly(decoded.bytes)
        THEN [f EXCEPT !.decoded = decoded.bytes, !.isValid = FALSE, !.pc = "validated"]
      ELSE CallDoubleSha256([f EXCEPT !.decoded = decoded.bytes,
                                      !.payload = Slice(decoded.bytes, 0, 34),
                                      !.checksum = Slice(decoded.bytes, 34, 38)],
                            "validateWIF", Slice(decoded.bytes, 0, 34))

\* Lines 76-81: the double digest is back, the checksums are compared.
validateWIF_checksum(c) ==
  /\ call[c].pc = "resumed"
  /\ call[c].site = "validateWIF"
  /\ call' = [call EXCEPT ![c] =
                [@ EXCEPT !.isValid = ChecksumMatches(call[c].checksum, Slice(call[c].digest, 0, 4)),
                          !.pc = "validated"]]
  /\ UNCHANGED <<codec, app>>

Call_validateWIF(c, wif) ==
  /\ CanCall(c)
  /\ call' = [call EXCEPT ![c] = EnterValidate([NewCall(c, "validateWIF") EXCEPT !.wif = wif], wif)]
  /\ UNCHANGED <<codec, app>>

\* validateWIF returns to the caller of the core.
validateWIF_return(c) ==
  /\ call[c].pc = "validated"
  /\ call[c].op = "validateWIF"
  /\ call' = [call EXCEPT ![c] = [@ EXCEPT !.bool = call[c].isValid, !.pc = "returned"]]
  /\ UNCHANGED <<codec, app>>

(***************************************************************************)
(* deriveAddressFromPrivKey (lines 92-109)                                  *)
(***************************************************************************)
\* The call up to its first await (line 94): the digest of privKey is requested.
EnterDeriveAddress(f, privKey) ==
  [f EXCEPT !.privKey = privKey, !.digests = @ + 1, !.pc = "address_pubKey"]

\* Line 94 resolves; line 96 requests the digest of pubKey.
deriveAddress_pubKey(c) ==
  /\ call[c].pc = "address_pubKey"
  /\ call' = [call EXCEPT ![c] = [@ EXCEPT !.pubKey = Sha256(call[c].privKey),
                                           !.digests = @ + 1,
                                           !.pc = "address_hash160"]]
  /\ UNCHANGED <<codec, app>>

\* Line 96 resolves; lines 98-103 build the payload and call doubleSha256.
deriveAddress_hash160(c) ==
  /\ call[c].pc = "address_hash160"
  /\ LET payload == AddressPayload(Slice(Sha256(call[c].pubKey), 0, 20))
     IN  call' = [call EXCEPT ![c] =
                    CallDoubleSha256([@ EXCEPT !.payload = payload],
                                     "deriveAddressFromPrivKey", payload)]
  /\ UNCHANGED <<codec, app>>

\* Lines 103-108: the checksum is back; the address is encoded and returned
\* (through deriveAddressFromWIF or generateVeritasAddress, which return it as is).
deriveAddress_checksum(c) ==
  /\ call[c].pc = "resumed"
  /\ call[c].site = "deriveAddressFromPrivKey"
  /\ LET checksum == Slice(call[c].digest, 0, 4)
     IN  call' = [call EXCEPT ![c] =
                    [@ EXCEPT !.checksum = checksum,
                              !.str = encodeBase58(AddressBuffer(call[c].payload, checksum)),
                              !.pc = "returned"]]
  /\ UNCHANGED <<codec, app>>

(***************************************************************************)
(* deriveAddressFromWIF (lines 114-121)                                     *)
(***************************************************************************)
Call_deriveAddressFromWIF(c, wif) ==
  /\ CanCall(c)
  /\ call' = [call EXCEPT ![c] =
                EnterValidate([NewCall(c, "deriveAddressFromWIF") EXCEPT !.wif = wif], wif)]
  /\ UNCHANGED <<codec, app>>

\* A variant of deriveAddressFromWIF_validated without the test of line 116.
deriveAddressFromWIF_unchecked(c) ==
  /\ call[c].pc = "validated"
  /\ call[c].op = "deriveAddressFromWIF"
  /\ call' = [call EXCEPT ![c] =
                LET decoded == Decode(call[c].wif).bytes
                IN  EnterDeriveAddress([@ EXCEPT !.decoded = decoded], Slice(decoded, 1, 33))]
  /\ UNCHANGED <<codec, app>>

\* Lines 115-120, after validateWIF answered.
deriveAddressFromWIF_validated(c) ==
  /\ call[c].pc = "validated"
  /\ call[c].op = "deriveAddressFromWIF"
  /\ call' = [call EXCEPT ![c] =
                IF ~call[c].isValid
                  THEN [@ EXCEPT !.error = InvalidWIF, !.pc = "threw"]
                  ELSE LET decoded == Decode(call[c].wif).bytes
                       IN  EnterDeriveAddress([@ EXCEPT !.decoded = decoded], Slice(decoded, 1, 33))]
  /\ UNCHANGED <<codec, app>>

(***************************************************************************)
(* generateVeritasAddress (lines 126-130)                                   *)
(***************************************************************************)
Call_generateVeritasAddress(c, seed) ==
  /\ CanCall(c)
  /\ call' = [call EXCEPT ![c] = [NewCall(c, "generateVeritasAddress") EXCEPT !.seed = seed,
                                           !.data = AddressEntropy(seed),
                                           !.digests = @ + 1,
                                           !.pc = "generate_privKey"]]
  /\ UNCHANGED <<codec, app>>

\* Line 128 resolves; line 129 calls deriveAddressFromPrivKey.
generateVeritasAddress_privKey(c) ==
  /\ call[c].pc = "generate_privKey"
  /\ call' = [call EXCEPT ![c] = EnterDeriveAddress(@, Sha256(call[c].data))]
  /\ UNCHANGED <<codec, app>>

(***************************************************************************)
(* deriveWIF (lines 135-152)                                                *)
(***************************************************************************)
Call_deriveWIF(c, seed) ==
  /\ CanCall(c)
  /\ call' = [call EXCEPT ![c] = [NewCall(c, "deriveWIF") EXCEPT !.seed = seed,
                                           !.data = WifEntropy(seed),
                                           !.digests = @ + 1,
                                           !.pc = "wif_privKey"]]
  /\ UNCHANGED <<codec, app>>

\* A variant of deriveWIF_privKey whose secret also depends on which call it is.
deriveWIF_privKey_Salted(c) ==
  /\ call[c].pc = "wif_privKey"
  /\ LET privKey == Sha256(call[c].data \o <<c>>)
         payload == WifPayload(privKey)
     IN  call' = [call EXCEPT ![c] =
                    CallDoubleSha256([@ EXCEPT !.privKey = privKey, !.payload = payload],
                                     "deriveWIF", payload)]
  /\ UNCHANGED <<codec, app>>

\* Line 137 resolves; lines 139-146 build the payload and call doubleSha256.
deriveWIF_privKey(c) ==
  /\ call[c].pc = "wif_privKey"
  /\ LET privKey == Sha256(call[c].data)
         payload == WifPayload(privKey)
     IN  call' = [call EXCEPT ![c] =
                    CallDoubleSha256([@ EXCEPT !.privKey = privKey, !.payload = payload],
                                     "deriveWIF", payload)]
  /\ UNCHANGED <<codec, app>>

\* Lines 146-151: the checksum is back; the key is encoded and returned.
deriveWIF_checksum(c) ==
  /\ call[c].pc = "resumed"
  /\ call[c].site = "deriveWIF"
  /\ LET checksum == Slice(call[c].digest, 0, 4)
     IN  call' = [call EXCEPT ![c] =
                    [@ EXCEPT !.checksum = checksum,
                              !.str = encodeBase58(WifBuffer(call[c].payload, checksum)),
                              !.pc = "returned"]]
  /\ UNCHANGED <<codec, app>>

(***************************************************************************)
(* signSequestrationTx (lines 158-190)                                      *)
(***************************************************************************)
Call_signSequestrationTx(c, wif, amount, destination) ==
  /\ CanCall(c)
  /\ call' = [call EXCEPT ![c] =
                EnterValidate([NewCall(c, "signSequestrationTx") EXCEPT !.wif = wif,
                                        !.amount = amount, !.destination = destination], wif)]
  /\ UNCHANGED <<codec, app>>

\* A variant of signSequestrationTx_validated without the test of line 160.
signSequestrationTx_unchecked(c) ==
  /\ call[c].pc = "validated"
  /\ call[c].op = "signSequestrationTx"
  /\ call' = [call EXCEPT ![c] =
                LET decoded == Decode(call[c].wif).bytes
                IN  [@ EXCEPT !.decoded = decoded,
                              !.privKey = Slice(decoded, 1, 33),
                              !.keyed = @ + 1,
                              !.pc = "sign_importKey"]]
  /\ UNCHANGED <<codec, app>>

\* Lines 159-166, after validateWIF answered: reject, or request the key import.
signSequestrationTx_validated(c) ==
  /\ call[c].pc = "validated"
  /\ call[c].op = "signSequestrationTx"
  /\ call' = [call EXCEPT ![c] =
                IF ~call[c].isValid
                  THEN [@ EXCEPT !.error = InvalidWIFKey, !.pc = "threw"]
                  ELSE LET decoded == Decode(call[c].wif).bytes
                       IN  [@ EXCEPT !.decoded = decoded,
                                     !.privKey = Slice(decoded, 1, 33),
                                     !.keyed = @ + 1,
                                     !.pc = "sign_importKey"]]
  /\ UNCHANGED <<codec, app>>

\* Line 166 resolves; line 174 reads the clock and line 175 requests the signature.
signSequestrationTx_importKey(c) ==
  /\ call[c].pc = "sign_importKey"
  /\ \E now \in ClockReadings :
       call' = [call EXCEPT ![c] =
                  [@ EXCEPT !.now = now,
                            !.clockReads = @ + 1,
                            !.txData = TxData(call[c].amount, call[c].destination, now),
                            !.keyed = @ + 1,
                            !.pc = "sign_sign"]]
  /\ UNCHANGED <<codec, app>>

\* A variant of signSequestrationTx_sign that reads the clock a second time
\* and signs the text with the new reading.
signSequestrationTx_sign_Reread(c) ==
  /\ call[c].pc = "sign_sign"
  /\ \E again \in ClockReadings :
       LET signature == SignatureHex(Hmac(call[c].privKey,
                                          TxData(call[c].amount, call[c].destination, again)))
           rawTx     == RawTx(signature, call[c].amount, call[c].destination)
       IN  call' = [call EXCEPT ![c] =
                      CallDoubleSha256([@ EXCEPT !.signature = signature, !.rawTx = rawTx,
                                                 !.clockReads = @ + 1],
                                       "signSequestrationTx", TextEncode(rawTx))]
  /\ UNCHANGED <<codec, app>>

\* Line 175 resolves; lines 176-183 build rawTx and call doubleSha256.
signSequestrationTx_sign(c) ==
  /\ call[c].pc = "sign_sign"
  /\ LET signature == SignatureHex(Hmac(call[c].privKey, call[c].txData))
         rawTx     == RawTx(signature, call[c].amount, call[c].destination)
     IN  call' = [call EXCEPT ![c] =
                    CallDoubleSha256([@ EXCEPT !.signature = signature, !.rawTx = rawTx],
                                     "signSequestrationTx", TextEncode(rawTx))]
  /\ UNCHANGED <<codec, app>>

\* Lines 183-189: the double digest is back; the record is returned.
signSequestrationTx_txid(c) ==
  /\ call[c].pc = "resumed"
  /\ call[c].site = "signSequestrationTx"
  /\ call' = [call EXCEPT ![c] =
                [@ EXCEPT !.tx = [txid |-> TxId(call[c].digest),
                                  raw |-> call[c].rawTx,
                                  signature |-> call[c].signature],
                          !.pc = "returned"]]
  /\ UNCHANGED <<codec, app>>

(***************************************************************************)
(* A failing host primitive                                                 *)
(***************************************************************************)
HostAwaits ==
  {"doubleSha256_first", "doubleSha256_second", "address_pubKey", "address_hash160",
   "generate_privKey", "wif_privKey", "sign_importKey", "sign_sign"}

\* The pending crypto.subtle promise of call c rejects.  Inside validateWIF the
\* rejection reaches the catch of line 82, which returns false; everywhere
\* else no handler stands between the await and the caller of the core.
HostReject(c) ==
  /\ call[c].pc \in HostAwaits
  /\ call' = [call EXCEPT ![c] =
                IF call[c].pc \in {"doubleSha256_first", "doubleSha256_second"}
                   /\ call[c].site = "validateWIF"
                  THEN [@ EXCEPT !.hostFailed = TRUE, !.isValid = FALSE, !.pc = "validated"]
                  ELSE [@ EXCEPT !.hostFailed = TRUE, !.error = HostError, !.pc = "threw"]]
  /\ UNCHANGED <<codec, app>>

(***************************************************************************)
(* Specifications                                                           *)
(***************************************************************************)
Next ==
  \E c \in Calls :
    \/ \E wif \in KeyStrings : Call_validateWIF(c, wif)
    \/ \E wif \in KeyStrings : Call_deriveAddressFromWIF(c, wif)
    \/ \E seed \in Seeds : Call_generateVeritasAddress(c, seed)
    \/ \E seed \in Seeds : Call_deriveWIF(c, seed)
    \/ \E wif \in KeyStrings, amount \in Amounts, destination \in Destinations :
         Call_signSequestrationTx(c, wif, amount, destination)
    \/ doubleSha256_first(c)
    \/ doubleSha256_second(c)
    \/ validateWIF_checksum(c)
    \/ validateWIF_return(c)
    \/ deriveAddress_pubKey(c)
    \/ deriveAddress_hash160(c)
    \/ deriveAddress_checksum(c)
    \/ deriveAddressFromWIF_validated(c)
    \/ generateVeritasAddress_privKey(c)
    \/ deriveWIF_privKey(c)
    \/ deriveWIF_checksum(c)
    \/ signSequestrationTx_validated(c)
    \/ signSequestrationTx_importKey(c)
    \/ signSequestrationTx_sign(c)
    \/ signSequestrationTx_txid(c)

\* The host primitives always resolve.
Spec == Init /\ [][Next]_vars

NextFault == Next \/ \E c \in Calls : HostReject(c)

\* The host primitives may reject.
SpecFault == Init /\ [][NextFault]_vars

(***************************************************************************)
(* The codec on its own: a buffer is encoded, the string is decoded         *)
(***************************************************************************)
MaxLen == 4

\* Byte values at the edges of a base-58 digit and of a byte.
ByteSamples == {0, 1, 57, 58, 255}

RECURSIVE BuffersOfLen(_)
BuffersOfLen(len) ==
  IF len = 0 THEN {<<>>}
  ELSE {Append(bytes, b) : bytes \in BuffersOfLen(len - 1), b \in ByteSamples}

\* Every buffer of at most MaxLen sampled bytes, and three blobs of 38, 38
\* and 37 bytes, one of them with a leading zero byte.
CodecBuffers ==
  UNION {BuffersOfLen(len) : len \in 0..MaxLen}
    \cup {Base58Decoded[str].bytes : str \in {Wif1, BadVersionKey, ShortKey}}

InitCodec ==
  /\ call = [c \in Calls |-> IdleCall]
  /\ app = IdleApp
  /\ \E buffer \in CodecBuffers : codec = [IdleCodec EXCEPT !.phase = "buffer", !.bytes = buffer]

Codec_encodeBase58 ==
  /\ codec.phase = "buffer"
  /\ codec' = [codec EXCEPT !.str = encodeBase58(codec.bytes), !.phase = "encoded"]
  /\ UNCHANGED <<call, app>>

Codec_decodeBase58 ==
  /\ codec.phase = "encoded"
  /\ codec' = [codec EXCEPT !.decoded = decodeBase58(codec.str), !.phase = "decoded"]
  /\ UNCHANGED <<call, app>>

NextCodec == Codec_encodeBase58 \/ Codec_decodeBase58

SpecCodec == InitCodec /\ [][NextCodec]_vars

\* C2: for every byte buffer b, decodeBase58(encodeBase58(b)) returns, without
\* throwing, exactly the bytes of b, leading zero bytes included.
C2_RoundTrip ==
  codec.phase = "decoded" => /\ ~codec.decoded.threw
                             /\ codec.decoded.bytes = codec.bytes

\* A buffer with two leading zero bytes has gone through the round trip.
C2_Witness ==
  /\ codec.phase = "decoded"
  /\ codec.bytes = <<0, 0, 58, 255>>
  /\ codec.str[1] = "1" /\ codec.str[2] = "1" /\ Len(codec.str) > 2

(***************************************************************************)
(* Properties                                                               *)
(***************************************************************************)
Returned(c, op) == call[c].op = op /\ call[c].pc = "returned"

\* The key deriveWIF builds from each seed.
DerivedKey == [seed \in Seeds |-> deriveWIF(seed)]

\* The answer of validateWIF for each key string.
KeyAccepted == [wif \in KeyStrings |-> validateWIF(wif)]

\* The key string decodes to 38 bytes with version 0x80 and compressed flag 0x01.
KeyStructured ==
  [wif \in KeyStrings |->
     LET d == Base58Decoded[wif]
     IN  ~d.threw /\ Len(d.bytes) = 38 /\ d.bytes[1] = 128 /\ d.bytes[34] = 1]

\* ... and its last four bytes are the first four of the double digest of the
\* first 34.
KeyWellFormed ==
  [wif \in KeyStrings |->
     /\ KeyStructured[wif]
     /\ LET d == Base58Decoded[wif].bytes
        IN  SubSeq(d, 35, 38) = SubSeq(doubleSha256(SubSeq(d, 1, 34)), 1, 4)]

HasForeignChar(wif) == \E i \in 1..Len(wif) : \A j \in 1..58 : ALPHABET[j] # wif[i]

\* C1: for every seed s, the address generateVeritasAddress(s) returns is the
\* address deriveAddressFromWIF returns for the key deriveWIF(s), both being
\* built from the same 32-byte secret.
C1_IdentityBelongsToKey ==
  \A c1, c2 \in Calls :
    ( /\ Returned(c1, "generateVeritasAddress")
      /\ Returned(c2, "deriveAddressFromWIF")
      /\ call[c2].wif = DerivedKey[call[c1].seed] )
    => /\ call[c1].privKey = call[c2].privKey
       /\ call[c1].str = call[c2].str

\* C3: validateWIF(s) returns true exactly when s decodes to 38 bytes d with
\* d[0] = 0x80, d[33] = 0x01 and d[34..37] the first four bytes of the double
\* digest of d[0..33], and false for every other string.
C3_ValidateIffWellFormed ==
  \A c \in Calls :
    Returned(c, "validateWIF") => call[c].bool = KeyWellFormed[call[c].wif]

\* validateWIF has accepted a derived key and has rejected a checksummed blob
\* whose only defect is its compressed flag.
C3_Witness ==
  \E c1, c2 \in Calls :
    /\ Returned(c1, "validateWIF") /\ call[c1].wif = Wif2 /\ call[c1].bool
    /\ Returned(c2, "validateWIF") /\ call[c2].wif = BadFlagKey /\ ~call[c2].bool

\* C4: validateWIF never ends with an error, whatever the string and whether or
\* not the host digest rejects: it ends by returning a boolean, and false for a
\* string holding a character outside the alphabet.
C4_ValidateNeverThrows ==
  \A c \in Calls :
    call[c].op = "validateWIF" =>
      /\ call[c].pc # "threw"
      /\ call[c].error = ""
      /\ call[c].pc \in {"doubleSha256_first", "doubleSha256_second", "resumed",
                         "validated", "returned"}
      /\ (call[c].pc = "returned" /\ HasForeignChar(call[c].wif)) => ~call[c].bool

\* validateWIF has returned false for a string with a foreign character and
\* for the empty string.
C4_Witness ==
  \E c1, c2 \in Calls :
    /\ Returned(c1, "validateWIF") /\ call[c1].wif = BadCharKey /\ ~call[c1].bool
    /\ Returned(c2, "validateWIF") /\ call[c2].wif = EmptyKey /\ ~call[c2].bool

InvalidKeyError(op) == IF op = "deriveAddressFromWIF" THEN InvalidWIF ELSE InvalidWIFKey

\* C5: for a key string validateWIF rejects, deriveAddressFromWIF and
\* signSequestrationTx end by throwing their invalid-key error and return no
\* value; for a key string it accepts, neither throws that error.
C5_InvalidKeyRejected ==
  \A c \in Calls :
    (call[c].op \in {"deriveAddressFromWIF", "signSequestrationTx"} /\ Finished(c)) =>
      IF KeyAccepted[call[c].wif]
        THEN /\ call[c].error \notin {InvalidWIF, InvalidWIFKey}
             /\ call[c].pc = "returned"
        ELSE /\ call[c].pc = "threw"
             /\ call[c].error = InvalidKeyError(call[c].op)
             /\ call[c].str = <<>>
             /\ call[c].tx = NoTx

\* deriveAddressFromWIF has thrown for a key with a wrong version byte while
\* signSequestrationTx has thrown for a key with a wrong checksum.
C5_Witness ==
  \E c1, c2 \in Calls :
    /\ call[c1].op = "deriveAddressFromWIF" /\ call[c1].wif = BadVersionKey
    /\ call[c1].pc = "threw" /\ call[c1].error = InvalidWIF
    /\ call[c2].op = "signSequestrationTx" /\ call[c2].wif = BadChecksumKey
    /\ call[c2].pc = "threw" /\ call[c2].error = InvalidWIFKey

\* C6: the string deriveWIF returns decodes to 38 bytes with version 0x80,
\* compressed flag 0x01 and, as last four bytes, the first four of the double
\* digest of the first 34; validateWIF called with it returns true.
C6_DerivedKeyValid ==
  \A c \in Calls :
    Returned(c, "deriveWIF") =>
      /\ LET d == Decode(call[c].str)
         IN  /\ ~d.threw
             /\ Len(d.bytes) = 38
             /\ d.bytes[1] = 128
             /\ d.bytes[34] = 1
             /\ SubSeq(d.bytes, 35, 38) = SubSeq(doubleSha256(SubSeq(d.bytes, 1, 34)), 1, 4)
      /\ \A c2 \in Calls :
           (Returned(c2, "validateWIF") /\ call[c2].wif = call[c].str) => call[c2].bool

\* deriveWIF has returned a key and validateWIF, called with that key, has
\* returned true.
C6_Witness ==
  \E c1, c2 \in Calls :
    /\ Returned(c1, "deriveWIF") /\ call[c1].seed = Seed2
    /\ Returned(c2, "validateWIF") /\ call[c2].wif = call[c1].str /\ call[c2].bool

\* C7, as stated: signSequestrationTx called with a key string that fails
\* validation makes no digest call and no keyed-hash call, and returns nothing.
C7_NoHashingOnInvalidKey ==
  \A c \in Calls :
    (call[c].op = "signSequestrationTx" /\ ~KeyAccepted[call[c].wif]) =>
      /\ call[c].digests = 0
      /\ call[c].keyed = 0
      /\ call[c].pc # "returned"
      /\ call[c].tx = NoTx

\* C7, amended: signSequestrationTx called with a key string that fails
\* validation makes no keyed-hash call, reads no clock and returns nothing; the
\* only digest calls it makes are the two of validateWIF's double digest, made
\* exactly when the key decodes to 38 bytes with version 0x80 and flag 0x01.
C7_NoSigningOnInvalidKey ==
  \A c \in Calls :
    (call[c].op = "signSequestrationTx" /\ ~KeyAccepted[call[c].wif]) =>
      /\ call[c].keyed = 0
      /\ call[c].clockReads = 0
      /\ call[c].pc # "returned"
      /\ call[c].tx = NoTx
      /\ call[c].signature = <<>> /\ call[c].rawTx = <<>>
      /\ call[c].digests <= 2
      /\ call[c].digests > 0 => KeyStructured[call[c].wif]
      /\ Finished(c) => call[c].digests = (IF KeyStructured[call[c].wif] THEN 2 ELSE 0)

\* signSequestrationTx has thrown for a key whose checksum is wrong, after the
\* two digest calls of validation, and for a key that does not decode, after none.
C7_Witness ==
  \E c1, c2 \in Calls :
    /\ call[c1].op = "signSequestrationTx" /\ call[c1].wif = BadChecksumKey
    /\ call[c1].pc = "threw" /\ call[c1].digests = 2
    /\ call[c2].op = "signSequestrationTx" /\ call[c2].wif = BadCharKey
    /\ call[c2].pc = "threw" /\ call[c2].digests = 0

\* C8: a call during which a host digest or keyed-hash primitive rejected ends
\* by throwing that same error; it never returns a value and never throws
\* another error.
C8_HostErrorPropagates ==
  \A c \in Calls :
    (call[c].hostFailed /\ Finished(c)) =>
      /\ call[c].pc = "threw"
      /\ call[c].error = HostError

SameArguments(c1, c2) ==
  /\ call[c1].wif = call[c2].wif
  /\ call[c1].amount = call[c2].amount
  /\ call[c1].destination = call[c2].destination

\* C9: two signSequestrationTx calls that returned, made with the same valid
\* key, amount and destination, and whose clock readings differ, returned
\* different signatures and different txids.
C9_SignatureDistinct ==
  \A c1, c2 \in Calls :
    ( /\ Returned(c1, "signSequestrationTx")
      /\ Returned(c2, "signSequestrationTx")
      /\ SameArguments(c1, c2)
      /\ call[c1].now # call[c2].now )
    => /\ call[c1].tx.signature # call[c2].tx.signature
       /\ call[c1].tx.txid # call[c2].tx.txid

\* Two such calls have returned.
C9_Witness ==
  /\ Returned(1, "signSequestrationTx")
  /\ Returned(2, "signSequestrationTx")
  /\ SameArguments(1, 2)
  /\ call[1].wif = Wif1
  /\ call[1].now = 1 /\ call[2].now = 2
  /\ Len(call[1].tx.signature) = 64 /\ Len(call[2].tx.txid) = 64

\* What each operation returns when it is the only call: the functions of the
\* source applied to the arguments (and, for signing, to the clock reading).
AloneAddress == [wif \in KeyStrings |-> deriveAddressFromWIF(wif)]
AloneGenerate == [seed \in Seeds |-> generateVeritasAddress(seed)]
AloneSign ==
  [wif \in KeyStrings, amount \in Amounts, destination \in Destinations, now \in ClockReadings |->
     signSequestrationTx(wif, amount, destination, now)]

SameAsAlone(c) ==
  CASE call[c].op = "validateWIF" ->
         call[c].pc = "returned" /\ call[c].bool = KeyAccepted[call[c].wif]
    [] call[c].op = "deriveAddressFromWIF" ->
         LET alone == AloneAddress[call[c].wif]
         IN  /\ (call[c].pc = "threw") = alone.threw
             /\ call[c].error = alone.error
             /\ ~alone.threw => call[c].str = alone.value
    [] call[c].op = "generateVeritasAddress" ->
         call[c].pc = "returned" /\ call[c].str = AloneGenerate[call[c].seed]
    [] call[c].op = "deriveWIF" ->
         call[c].pc = "returned" /\ call[c].str = DerivedKey[call[c].seed]
    [] call[c].op = "signSequestrationTx" ->
         IF call[c].now = 0
           THEN call[c].pc = "threw" /\ call[c].error = InvalidWIFKey /\ ~KeyAccepted[call[c].wif]
           ELSE LET alone == AloneSign[call[c].wif, call[c].amount, call[c].destination, call[c].now]
                IN  /\ call[c].pc = "returned"
                    /\ ~alone.threw
                    /\ call[c].tx = alone.value

\* C10: however the steps of the calls interleave, each call that ends has the
\* outcome the same operation has alone with the same arguments and clock reading.
C10_NoSharedState ==
  \A c \in Calls : Finished(c) => SameAsAlone(c)

\* Two calls that were in flight together have both ended: the second was made
\* while the first was suspended at an await.
C10_Witness ==
  /\ call[2].concurrent
  /\ Returned(1, "signSequestrationTx")
  /\ Returned(2, "deriveAddressFromWIF")

(***************************************************************************)
(* Corrupted keys: one bit of the 38-byte blob of a valid key is flipped    *)
(* and the blob re-encoded, or the last character of the key is replaced;   *)
(* validateWIF is then called with the string.                              *)
(***************************************************************************)
ValidKeys == {Wif1, Wif2}

BitMask == <<1, 2, 4, 8, 16, 32, 64, 128>>

\* bytes with bit number bit (0 is the lowest bit of the first byte) flipped.
FlipBit(bytes, bit) ==
  AsSeq([i \in 1..Len(bytes) |->
           IF i = (bit \div 8) + 1
             THEN XorBits(bytes[i], BitMask[(bit % 8) + 1], 8)
             ELSE bytes[i]])

\* str with its last character replaced by ch.
ReplaceLast(str, ch) == SubSeq(str, 1, Len(str) - 1) \o <<ch>>

FlippedBlobs ==
  {FlipBit(Base58Decoded[wif].bytes, bit) : wif \in ValidKeys, bit \in 0..303}

AlteredKeys ==
  {ReplaceLast(wif, ALPHABET[j]) : wif \in ValidKeys, j \in 1..58} \ ValidKeys

InitFlip ==
  /\ call = [c \in Calls |-> IdleCall]
  /\ app = IdleApp
  /\ \/ \E buffer \in FlippedBlobs :
          codec = [IdleCodec EXCEPT !.phase = "buffer", !.bytes = buffer]
     \/ \E str \in AlteredKeys :
          codec = [IdleCodec EXCEPT !.phase = "encoded", !.str = str]

\* validateWIF is called with the string at hand.
Flip_validateWIF(c) ==
  /\ codec.phase = "encoded"
  /\ Call_validateWIF(c, codec.str)

NextFlip ==
  \/ Codec_encodeBase58
  \/ \E c \in {1} :
       \/ Flip_validateWIF(c)
       \/ doubleSha256_first(c)
       \/ doubleSha256_second(c)
       \/ validateWIF_checksum(c)
       \/ validateWIF_return(c)

SpecFlip == InitFlip /\ [][NextFlip]_vars

\* C11: validateWIF returns false for the re-encoding of a valid key's blob
\* with any one bit flipped, and for a valid key with its last character
\* replaced by another one of the alphabet.
C11_ChecksumSensitive ==
  \A c \in Calls : Returned(c, "validateWIF") => ~call[c].bool

\* validateWIF has rejected keys that differ from a valid one in one bit of
\* the secret, which it can only tell by the checksum.
C11_Witness ==
  /\ codec.bytes = FlipBit(Base58Decoded[Wif1].bytes, 100)
  /\ call[1].wif = codec.str
  /\ Returned(1, "validateWIF")
  /\ ~call[1].bool
  /\ call[1].digests = 2

HexChars == {"0", "1", "2", "3", "4", "5", "6", "7", "8", "9", "a", "b", "c", "d", "e", "f"}

IsHex(str) == \A i \in 1..Len(str) : str[i] \in HexChars

Marker == <<"1", "9", "7", "6", "a", "9", "1", "4">>

\* C12: the raw record signSequestrationTx returns consists of hex digits only
\* and has the length of the template with a 64-character signature, a
\* 16-character amount and a 40-character destination, the destination being
\* 40 hex digits right after the marker 1976a914.
C12_RawRecordHex ==
  \A c \in Calls :
    Returned(c, "signSequestrationTx") =>
      /\ Len(call[c].tx.raw) = 168
      /\ IsHex(call[c].tx.raw)
      /\ SubSeq(call[c].tx.raw, 109, 116) = Marker
      /\ IsHex(SubSeq(call[c].tx.raw, 117, 156))

(***************************************************************************)
(* The amount field on its own: signSequestrationTx's line 179 applied to   *)
(* doubles of every magnitude.                                               *)
(***************************************************************************)
\* 0, 1, 3, 2^38, 184467440737, 184467440738, and the mantissas of 0.03,
\* 0.29, 21.999999999, 90071992.54740994 and 1000000000000000.2.
Doubles ==
  [ mant : { <<>>, <<1>>, <<3>>, <<64, 0, 0, 0, 0>>,
        <<42, 243, 29, 196, 97>>, <<42, 243, 29, 196, 98>>,
        <<3, 215, 10, 61, 112, 163, 215>>, <<18, 143, 92, 40, 245, 194, 143>>,
        <<21, 255, 255, 255, 251, 180, 125>>, <<21, 121, 142, 226, 48, 140, 59>>,
        <<14, 53, 250, 147, 26, 0, 1>> },
    exp  : {-55, -54, -48, -26, -9, -2, -1, 0, 4} ]

InitAmount ==
  /\ call = [c \in Calls |-> IdleCall]
  /\ app = IdleApp
  /\ \E double \in Doubles : codec = [phase |-> "amount", amount |-> double, str |-> <<>>]

Amount_amountSats ==
  /\ codec.phase = "amount"
  /\ codec' = [codec EXCEPT !.phase = "field", !.str = AmountHex(codec.amount)]
  /\ UNCHANGED <<call, app>>

SpecAmount == InitAmount /\ [][Amount_amountSats]_vars

\* The integer a string of hexadecimal digits denotes.
HexBits(str) ==
  StripZeroBits(AsSeq([i \in 1..(4 * Len(str)) |->
    (IndexOf(RadixDigits, str[((i - 1) \div 4) + 1]) \div (2 ^ (3 - ((i - 1) % 4)))) % 2]))

\* C13: for every non-negative amount the amount field is exactly 16 lower-case
\* hexadecimal digits, zero-padded, whose value is floor(amount * 1e8) (the
\* floor of the double product, as the program computes it).
C13_AmountField ==
  codec.phase = "field" =>
    /\ Len(codec.str) = 16
    /\ IsHex(codec.str)
    /\ HexBits(codec.str) = Sats(codec.amount)

(***************************************************************************)
(* decodeBase58 on its own, applied to strings with and without characters  *)
(* outside the alphabet.                                                     *)
(***************************************************************************)
MaxStr == 3

\* "1" (the zero digit), "2", "z" (the last digit), and five characters that
\* are not in the alphabet.
CharSamples == {"1", "2", "z", "0", "O", "I", "l", " "}

RECURSIVE StringsOfLen(_)
StringsOfLen(len) ==
  IF len = 0 THEN {<<>>}
  ELSE {Append(str, ch) : str \in StringsOfLen(len - 1), ch \in CharSamples}

InitDecode ==
  /\ call = [c \in Calls |-> IdleCall]
  /\ app = IdleApp
  /\ \E text \in UNION {StringsOfLen(len) : len \in 0..MaxStr} :
       codec = [IdleCodec EXCEPT !.phase = "encoded", !.str = text]

SpecDecode == InitDecode /\ [][Codec_decodeBase58]_vars

\* C14: decodeBase58 throws the invalid-character error if and only if its
\* input has a character outside the alphabet; it then returns no bytes, and
\* otherwise the bytes it returns encode back to the input, so no character was
\* skipped or replaced.
C14_ThrowsIffForeignChar ==
  codec.phase = "decoded" =>
    /\ codec.decoded.threw <=> HasForeignChar(codec.str)
    /\ codec.decoded.threw => codec.decoded.bytes = <<>>
    /\ ~codec.decoded.threw => encodeBase58(codec.decoded.bytes) = codec.str

\* decodeBase58 has thrown on a string whose second character is foreign.
C14_Witness ==
  /\ codec.phase = "decoded"
  /\ codec.str = <<"2", "0", "z">>
  /\ codec.decoded.threw

\* The length of the longest prefix of seq all of whose elements are elem.
LeadingRun(seq, elem) ==
  IF \A i \in 1..Len(seq) : seq[i] = elem THEN Len(seq)
  ELSE (CHOOSE i \in 1..Len(seq) : seq[i] # elem /\ \A j \in 1..(i - 1) : seq[j] = elem) - 1

\* C15: for every byte sequence b, encodeBase58(b) starts with as many "1"
\* characters as b starts with zero bytes; an all-zero b of n bytes encodes to
\* exactly n "1" characters, and the empty b to the empty string.
C15_LeadingZerosPreserved ==
  codec.phase \in {"encoded", "decoded"} =>
    /\ LeadingRun(codec.str, "1") = LeadingRun(codec.bytes, 0)
    /\ (\A i \in 1..Len(codec.bytes) : codec.bytes[i] = 0) => Len(codec.str) = Len(codec.bytes)
    /\ codec.bytes = <<>> => codec.str = <<>>

\* A buffer with two leading zero bytes has been encoded to a string with two
\* leading "1" characters and further digits.
C15_Witness ==
  /\ codec.phase = "encoded"
  /\ codec.bytes = <<0, 0, 57, 1>>
  /\ LeadingRun(codec.str, "1") = 2
  /\ Len(codec.str) > 2

\* The 32-byte secret inside each valid key string, and the one
\* generateVeritasAddress derives from each seed.
SecretOfKey == [wif \in ValidKeys |-> SubSeq(Base58Decoded[wif].bytes, 2, 33)]

SecretOfSeed == [seed \in Seeds |-> Sha256(TextEncode(seed \o AddressTag))]

\* The secret a returned address call derived its address from.
Secret(c) ==
  IF call[c].op = "generateVeritasAddress" THEN SecretOfSeed[call[c].seed]
  ELSE SecretOfKey[call[c].wif]

\* C16: every address the core returns, from a key string or from a seed,
\* decodes to exactly 25 bytes: the version byte 0x00, the first 20 bytes of
\* digest(digest(secret)), and the first 4 bytes of the double digest of those
\* 21 bytes.
C16_AddressLayout ==
  \A c \in Calls :
    (Returned(c, "deriveAddressFromWIF") \/ Returned(c, "generateVeritasAddress")) =>
      LET d == decodeBase58(call[c].str)
      IN  /\ ~d.threw
          /\ Len(d.bytes) = 25
          /\ d.bytes[1] = 0
          /\ SubSeq(d.bytes, 2, 21) = SubSeq(Sha256(Sha256(Secret(c))), 1, 20)
          /\ SubSeq(d.bytes, 22, 25) = SubSeq(Sha256(Sha256(SubSeq(d.bytes, 1, 21))), 1, 4)

\* An address derived from a key string and one derived from a seed have both
\* been returned.
C16_Witness ==
  \E c1, c2 \in Calls :
    /\ Returned(c1, "deriveAddressFromWIF") /\ call[c1].wif = Wif1
    /\ Returned(c2, "generateVeritasAddress") /\ call[c2].seed = Seed2
    /\ Len(call[c1].str) > 25 /\ Len(call[c2].str) > 25

\* C17: two deriveWIF calls with the same seed return the same key string and
\* two generateVeritasAddress calls with the same seed return the same address,
\* however their steps interleave; and whatever the other call is and does, the
\* string returned is the one the seed alone determines.
C17_SeedDeterministic ==
  /\ \A c1, c2 \in Calls :
       \A op \in {"deriveWIF", "generateVeritasAddress"} :
         (Returned(c1, op) /\ Returned(c2, op) /\ call[c1].seed = call[c2].seed) =>
           call[c1].str = call[c2].str
  /\ \A c \in Calls :
       /\ Returned(c, "deriveWIF") => call[c].str = DerivedKey[call[c].seed]
       /\ Returned(c, "generateVeritasAddress") => call[c].str = AloneGenerate[call[c].seed]

\* Two deriveWIF calls with the same seed, the second made while the first
\* was in flight, have both returned.
C17_Witness ==
  /\ Returned(1, "deriveWIF") /\ Returned(2, "deriveWIF")
  /\ call[1].seed = Seed2 /\ call[2].seed = Seed2
  /\ call[2].concurrent
  /\ Len(call[1].str) > 38

\* C18: two signSequestrationTx calls that returned, made with the same valid
\* key, amount and destination and given the same clock reading, returned the
\* same txid, raw record and signature; a call never reads the clock more than
\* once, and a call that returned has read it exactly once.
C18_ClockOnlyNondeterminism ==
  /\ \A c1, c2 \in Calls :
       ( /\ Returned(c1, "signSequestrationTx")
         /\ Returned(c2, "signSequestrationTx")
         /\ SameArguments(c1, c2)
         /\ call[c1].now = call[c2].now )
       => call[c1].tx = call[c2].tx
  /\ \A c \in Calls :
       /\ call[c].clockReads <= 1
       /\ Returned(c, "signSequestrationTx") => call[c].clockReads = 1

\* Two signing calls with the same arguments and the same clock reading, the
\* second made while the first was in flight, have both returned.
C18_Witness ==
  /\ Returned(1, "signSequestrationTx")
  /\ Returned(2, "signSequestrationTx")
  /\ SameArguments(1, 2)
  /\ call[1].wif = Wif2
  /\ call[1].now = 2 /\ call[2].now = 2
  /\ call[2].concurrent
  /\ Len(call[1].tx.txid) = 64

(***************************************************************************)
(* The transaction workflow of the App component (src/App.tsx).            *)
(*                                                                         *)
(* An action is one handler, timer callback or resumed await together with  *)
(* the render it causes and the effects of that render.  A function called   *)
(* later (from a timer, or after an await) works on the values of the        *)
(* render that created it: those values are kept in its activation.  The     *)
(* delays of 500, 1000, 1500 and 2000 ms are not measured: a timer that is   *)
(* armed may fire at any later step.                                         *)
(***************************************************************************)
MaxBlocks == 6
MaxStaged == 2

\* The values of carbonSaved (line 71, a random number) a block is given.
CarbonSamples == {1, 2}

\* mempool.reduce((acc, curr) => acc + curr.carbonSaved, 0), line 131.
RECURSIVE SumCarbon(_)
SumCarbon(blocks) ==
  IF blocks = <<>> THEN 0 ELSE blocks[1].carbonSaved + SumCarbon(Tail(blocks))

\* prepareSequestrationTx up to its await (lines 131-136), on the render s.
prepareSequestrationTx_start(s) ==
  LET pending == SumCarbon(s.mempool)
  IN  IF pending <= 0 THEN s
      ELSE [s EXCEPT !.isRecovering = TRUE,
                     !.prepares = Append(@, [pending       |-> pending,
                                             isAutoCollect |-> s.isAutoCollect,
                                             isWifValid    |-> s.isWifValid])]

\* broadcastTransaction up to its await (lines 152-157), with activeTx the
\* value of the render that created the function.
broadcastTransaction_start(s, activeTx) ==
  IF activeTx = NoActiveTx THEN s
  ELSE [s EXCEPT !.isConfirmingBroadcast = FALSE,
                 !.isBroadcasting = TRUE,
                 !.broadcasts = Append(@, activeTx)]

\* A variant of AutoCollectEffect whose dependency list lacks
\* vault.isRecovering.
AutoCollectEffect_Forgets(before, s) ==
  IF /\ \/ before.mempool # s.mempool
        \/ before.isAutoCollect # s.isAutoCollect
        \/ before.activeTx # s.activeTx
        \/ before.isBroadcasting # s.isBroadcasting
        \/ before.isWifValid # s.isWifValid
     /\ s.isAutoCollect
     /\ Len(s.mempool) >= 5
     /\ s.activeTx = NoActiveTx
     /\ ~s.isRecovering
     /\ ~s.isBroadcasting
     /\ s.isWifValid
  THEN prepareSequestrationTx_start(s)
  ELSE s

\* The effect of lines 172-176, run after a render that changed one of its
\* dependencies.
AutoCollectEffect(before, s) ==
  IF /\ \/ before.mempool # s.mempool
        \/ before.isAutoCollect # s.isAutoCollect
        \/ before.activeTx # s.activeTx
        \/ before.isRecovering # s.isRecovering
        \/ before.isBroadcasting # s.isBroadcasting
        \/ before.isWifValid # s.isWifValid
     /\ s.isAutoCollect
     /\ Len(s.mempool) >= 5
     /\ s.activeTx = NoActiveTx
     /\ ~s.isRecovering
     /\ ~s.isBroadcasting
     /\ s.isWifValid
  THEN prepareSequestrationTx_start(s)
  ELSE s

\* The effect of lines 178-183: when a dependency changed, the cleanup of the
\* previous run clears its timer, and the new run arms one if its test passes.
AutoBroadcastEffect(before, s) ==
  IF \/ before.activeTx # s.activeTx
     \/ before.isAutoCollect # s.isAutoCollect
     \/ before.isBroadcasting # s.isBroadcasting
  THEN [s EXCEPT !.timer = IF s.isAutoCollect /\ s.activeTx # NoActiveTx /\ ~s.isBroadcasting
                             THEN <<s.activeTx>>
                             ELSE <<>>]
  ELSE s

\* The render that follows a handler and its two effects, in source order.
\* The render prepareSequestrationTx causes when the first effect starts it
\* changes no dependency of the second.
Render(before, s) == AutoCollectEffect(before, AutoBroadcastEffect(before, s))

RemoveAt(seq, i) == SubSeq(seq, 1, i - 1) \o SubSeq(seq, i + 1, Len(seq))

\* initVault (lines 51-56), called once when the component mounts, resolves:
\* the vault has the key derived from the seed and the address of that key.
\* initDone records that it has.
App_initVault(seed) ==
  /\ ~app.initDone
  /\ app' = Render(app, [app EXCEPT !.initDone = TRUE,
                                    !.wif = DerivedKey[seed],
                                    !.address = AloneAddress[DerivedKey[seed]].value,
                                    !.isWifValid = TRUE])
  /\ UNCHANGED <<call, codec>>

\* A simulation tick that generates a block (lines 68-76, 89).
App_generateMempoolBlock ==
  /\ app.blocks < MaxBlocks
  /\ \E carbonSaved \in CarbonSamples :
       app' = Render(app,
                [app EXCEPT !.blocks = @ + 1,
                            !.mempool = Slice(<<[id |-> app.blocks + 1, carbonSaved |-> carbonSaved]>> \o @, 0, 10)])
  /\ UNCHANGED <<call, codec>>

\* A click on the auto-collect toggle (line 229).
App_toggleAutoCollect ==
  /\ app' = Render(app, [app EXCEPT !.isAutoCollect = ~@])
  /\ UNCHANGED <<call, codec>>

\* A click on the collect button (lines 252-253), enabled by its disabled test.
App_clickPrepare ==
  /\ ~(app.isRecovering \/ Len(app.mempool) = 0 \/ app.activeTx # NoActiveTx \/ app.isBroadcasting)
  /\ app' = Render(app, prepareSequestrationTx_start(app))
  /\ UNCHANGED <<call, codec>>

\* signSequestrationTx resolves in prepareSequestrationTx (lines 136-143, 147),
\* which it does only for a valid key.
App_prepareSigned ==
  /\ app.staged < MaxStaged
  /\ \E i \in 1..Len(app.prepares) :
       /\ app.prepares[i].isWifValid
       /\ app' = Render(app,
                  [app EXCEPT !.prepares = RemoveAt(@, i),
                              !.staged = @ + 1,
                              !.activeTx = [serial |-> app.staged + 1,
                                            amount |-> app.prepares[i].pending],
                              !.isConfirmingBroadcast =
                                  IF app.prepares[i].isAutoCollect THEN @ ELSE TRUE,
                              !.recoverTimers = @ + 1])
  /\ UNCHANGED <<call, codec>>

\* signSequestrationTx rejects the invalid key of the render in
\* prepareSequestrationTx (lines 144-147).
App_prepareRejected ==
  /\ \E i \in 1..Len(app.prepares) :
       /\ ~app.prepares[i].isWifValid
       /\ app' = Render(app, [app EXCEPT !.prepares = RemoveAt(@, i), !.recoverTimers = @ + 1])
  /\ UNCHANGED <<call, codec>>

\* signSequestrationTx rejects with an error of the host (lines 144-147).
App_prepareHostError ==
  /\ \E i \in 1..Len(app.prepares) :
       app' = Render(app, [app EXCEPT !.prepares = RemoveAt(@, i), !.recoverTimers = @ + 1])
  /\ UNCHANGED <<call, codec>>

\* The 500 ms timer of line 147 fires.
App_recoverTimer ==
  /\ app.recoverTimers > 0
  /\ app' = Render(app, [app EXCEPT !.recoverTimers = @ - 1, !.isRecovering = FALSE])
  /\ UNCHANGED <<call, codec>>

\* The confirmation modal is on screen (line 384).
ModalShown == app.isConfirmingBroadcast /\ app.activeTx # NoActiveTx /\ ~app.isAutoCollect

\* A variant of the click on the confirm button in which broadcastTransaction
\* starts without touching isConfirmingBroadcast and isBroadcasting.
App_clickBroadcast_Unflagged ==
  /\ ModalShown
  /\ ~app.isBroadcasting
  /\ Len(app.broadcasts) < 2
  /\ app' = Render(app, [app EXCEPT !.broadcasts = Append(@, app.activeTx)])
  /\ UNCHANGED <<call, codec>>

\* A click on the confirm button of the modal (line 407).
App_clickBroadcast ==
  /\ ModalShown
  /\ ~app.isBroadcasting
  /\ app' = Render(app, broadcastTransaction_start(app, app.activeTx))
  /\ UNCHANGED <<call, codec>>

\* A click on the abort button of the modal (line 410).
App_clickAbort ==
  /\ ModalShown
  /\ ~app.isBroadcasting
  /\ app' = Render(app, [app EXCEPT !.activeTx = NoActiveTx,
                                    !.isConfirmingBroadcast = FALSE,
                                    !.aborted = @ \cup {app.activeTx.serial}])
  /\ UNCHANGED <<call, codec>>

\* The 1500 ms timer of line 180 fires and calls the broadcastTransaction of
\* the render that armed it.
App_autoBroadcastTimer ==
  /\ app.timer # <<>>
  /\ app' = Render(app, broadcastTransaction_start([app EXCEPT !.timer = <<>>], app.timer[1]))
  /\ UNCHANGED <<call, codec>>

\* The 2000 ms delay of line 157 is over: broadcastTransaction settles
\* (lines 159-167).
App_broadcastSettle ==
  /\ \E i \in 1..Len(app.broadcasts) :
       app' = Render(app,
                [app EXCEPT !.broadcasts = RemoveAt(@, i),
                            !.txHistory = Slice(<<app.broadcasts[i]>> \o @, 0, 20),
                            !.totalBalance = @ + app.broadcasts[i].amount,
                            !.mempool = <<>>,
                            !.activeTx = NoActiveTx,
                            !.isBroadcasting = FALSE])
  /\ UNCHANGED <<call, codec>>

\* The workflow while the host primitives resolve.
NextAuto ==
  \/ \E seed \in Seeds : App_initVault(seed)
  \/ App_generateMempoolBlock
  \/ App_toggleAutoCollect
  \/ App_clickPrepare
  \/ App_prepareSigned
  \/ App_prepareRejected
  \/ App_recoverTimer
  \/ App_clickBroadcast
  \/ App_clickAbort
  \/ App_autoBroadcastTimer
  \/ App_broadcastSettle

NextApp == NextAuto \/ App_prepareHostError

SpecApp == Init /\ [][NextApp]_vars

\* The blocks a step removes from the mempool.
RemovedBlocks ==
  SelectSeq(app.mempool, LAMBDA b : \A j \in 1..Len(app'.mempool) : app'.mempool[j].id # b.id)

\* C19: whenever broadcastTransaction settles, the amount it adds to
\* vault.totalBalance is the sum of carbonSaved over exactly the blocks the
\* settlement removes from the mempool.
C19_SettlementConserves ==
  [][App_broadcastSettle =>
       app'.totalBalance - app.totalBalance = SumCarbon(RemovedBlocks)]_vars

RECURSIVE SumAmount(_)
SumAmount(txs) == IF txs = <<>> THEN 0 ELSE txs[1].amount + SumAmount(Tail(txs))

\* C20: a staged transaction is settled at most once: no transaction is twice
\* in txHistory, totalBalance is the sum of the amounts in txHistory (each was
\* credited once, when it was appended), and no aborted transaction is in
\* txHistory.
C20_SettledAtMostOnce ==
  /\ \A i, j \in 1..Len(app.txHistory) :
       app.txHistory[i].serial = app.txHistory[j].serial => i = j
  /\ app.totalBalance = SumAmount(app.txHistory)
  /\ \A i \in 1..Len(app.txHistory) : app.txHistory[i].serial \notin app.aborted

\* One transaction was aborted, and a later one was staged while auto-collect
\* was on, broadcast by the timer and settled.
C20_Witness ==
  /\ app.aborted = {1}
  /\ Len(app.txHistory) = 1
  /\ app.txHistory[1].serial = 2
  /\ app.totalBalance = app.txHistory[1].amount
  /\ app.isAutoCollect
  /\ ~app.isBroadcasting

(***************************************************************************)
(* Key recovery in the App component (src/App.tsx, lines 185-194 and the     *)
(* modal of lines 417-426).  validateWIF and deriveAddressFromWIF touch no   *)
(* state of the component, so each await of handleRecover resumes with the   *)
(* value the function returns for the key of its activation.                *)
(***************************************************************************)
MaxRecover == 2

IdentityFail == "IDENTITY_FAIL: Corrupt checksum."

\* A click on "Recover Key" (line 248).
App_openRecovery ==
  /\ ~app.isRecoveryOpen
  /\ app' = Render(app, [app EXCEPT !.isRecoveryOpen = TRUE])
  /\ UNCHANGED <<call, codec>>

\* The text of the key field is changed (line 423).
App_changeRecoveryWif ==
  /\ app.isRecoveryOpen
  /\ \E wif \in KeyStrings \ {app.recoveryWif} :
       app' = Render(app, [app EXCEPT !.recoveryWif = wif])
  /\ UNCHANGED <<call, codec>>

\* A click on "Abort" in the recovery modal (line 426).
App_closeRecovery ==
  /\ app.isRecoveryOpen
  /\ app' = Render(app, [app EXCEPT !.isRecoveryOpen = FALSE])
  /\ UNCHANGED <<call, codec>>

\* A click on "Re-Calibrate" (line 425): handleRecover up to its first await
\* (lines 186-188), with the recoveryWif of the render.
App_handleRecover ==
  /\ app.isRecoveryOpen
  /\ app.attempts < MaxRecover
  /\ app' = Render(app, [app EXCEPT !.attempts = @ + 1,
                                    !.recoveryError = <<>>,
                                    !.recovers = Append(@, [wif |-> app.recoveryWif,
                                                            pc  |-> "validateWIF"])])
  /\ UNCHANGED <<call, codec>>

\* validateWIF resolves in handleRecover (lines 188-190).
App_handleRecover_validated(i) ==
  /\ app.recovers[i].pc = "validateWIF"
  /\ app' = Render(app,
             IF ~KeyAccepted[app.recovers[i].wif]
               THEN [app EXCEPT !.recoveryError = <<IdentityFail>>,
                                !.recovers = RemoveAt(@, i)]
               ELSE [app EXCEPT !.recovers[i].pc = "deriveAddressFromWIF"])
  /\ UNCHANGED <<call, codec>>

\* A variant of App_handleRecover_derived that stores the key without its
\* address.
App_handleRecover_derived_KeyOnly(i) ==
  /\ app.recovers[i].pc = "deriveAddressFromWIF"
  /\ app' = Render(app, [app EXCEPT !.wif = app.recovers[i].wif,
                                    !.isWifValid = TRUE,
                                    !.isRecoveryOpen = FALSE,
                                    !.recoveryWif = <<>>,
                                    !.recovers = RemoveAt(@, i)])
  /\ UNCHANGED <<call, codec>>

\* deriveAddressFromWIF resolves or throws in handleRecover (lines 190-193).
App_handleRecover_derived(i) ==
  /\ app.recovers[i].pc = "deriveAddressFromWIF"
  /\ LET addr == AloneAddress[app.recovers[i].wif]
     IN  app' = Render(app,
                  IF addr.threw
                    THEN [app EXCEPT !.recoveryError = <<"EXCEPTION: " \o addr.error>>,
                                     !.recovers = RemoveAt(@, i)]
                    ELSE [app EXCEPT !.address = addr.value,
                                     !.wif = app.recovers[i].wif,
                                     !.isWifValid = TRUE,
                                     !.isRecoveryOpen = FALSE,
                                     !.recoveryWif = <<>>,
                                     !.recovers = RemoveAt(@, i)])
  /\ UNCHANGED <<call, codec>>

NextVault ==
  \/ \E seed \in Seeds : App_initVault(seed)
  \/ App_openRecovery
  \/ App_changeRecoveryWif
  \/ App_closeRecovery
  \/ App_handleRecover
  \/ \E i \in 1..Len(app.recovers) : App_handleRecover_validated(i)
  \/ \E i \in 1..Len(app.recovers) : App_handleRecover_derived(i)

SpecVault == Init /\ [][NextVault]_vars

\* C21: whenever vault.isWifValid is true, vault.wif passes validateWIF and
\* vault.address is the address deriveAddressFromWIF returns for vault.wif; and
\* a recovery attempt that ends on an invalid key leaves vault.wif,
\* vault.address and vault.isWifValid as they were and sets recoveryError.
C21_VaultConsistent ==
  /\ [](app.isWifValid =>
          /\ app.wif \in KeyStrings
          /\ KeyAccepted[app.wif]
          /\ app.address = AloneAddress[app.wif].value)
  /\ [][\A i \in 1..Len(app.recovers) :
          (App_handleRecover_validated(i) /\ ~KeyAccepted[app.recovers[i].wif]) =>
            /\ app'.wif = app.wif
            /\ app'.address = app.address
            /\ app'.isWifValid = app.isWifValid
            /\ app'.recoveryError # <<>>]_vars

\* The vault was initialised, then recovered to the other valid key, and a
\* later attempt with an invalid key has failed.
C21_Witness ==
  /\ app.initDone
  /\ app.isWifValid
  /\ app.wif = Wif2
  /\ app.address = AloneAddress[Wif2].value
  /\ app.attempts = 2
  /\ app.recovers = <<>>
  /\ app.recoveryError = <<IdentityFail>>

\* The workflow with the scheduling the program relies on: an await on
\* signSequestrationTx ends, and a timer that stays armed fires.  Ticks and
\* clicks are under no obligation.
SpecAuto ==
  /\ Init
  /\ [][NextAuto]_vars
  /\ WF_vars(App_prepareSigned)
  /\ WF_vars(App_prepareRejected)
  /\ WF_vars(App_recoverTimer)
  /\ WF_vars(App_autoBroadcastTimer)
  /\ WF_vars(App_broadcastSettle)

\* Auto-collect is on, the vault key is valid, the mempool holds at least 5
\* blocks and no transaction is staged or being broadcast.
AutoReady ==
  /\ app.isAutoCollect
  /\ app.isWifValid
  /\ Len(app.mempool) >= 5
  /\ app.activeTx = NoActiveTx
  /\ ~app.isBroadcasting

\* The k-th settlement has just happened: its transaction, the one staged
\* last, is at the head of txHistory, and nothing is staged, being broadcast
\* or left in the mempool.
SettledAs(k) ==
  /\ Len(app.txHistory) = k
  /\ \A j \in 2..k : app.txHistory[1].serial > app.txHistory[j].serial
  /\ app.activeTx = NoActiveTx
  /\ ~app.isBroadcasting
  /\ app.mempool = <<>>

\* C22: from a state in which auto-collect is ready after n settlements (and
\* the model may still stage a transaction), unless auto-collect is turned
\* off, the transaction staged next is eventually settled: it is at the head
\* of txHistory, which then has n + 1 entries, activeTx is null,
\* isBroadcasting is false and the mempool is empty.
C22_AutoCollectProgress ==
  \A n \in 0..(MaxStaged - 1) :
    (AutoReady /\ Len(app.txHistory) = n /\ app.staged < MaxStaged)
      ~> (~app.isAutoCollect \/ SettledAs(n + 1))

\* Auto-collect has collected at least five blocks into one transaction and
\* settled it, with auto-collect still on and no transaction ever aborted.
C22_Witness ==
  /\ app.isAutoCollect
  /\ SettledAs(1)
  /\ app.blocks >= 5
  /\ app.txHistory[1].amount >= 5
  /\ app.aborted = {}

(***************************************************************************)
(* decodeBase58 followed by encodeBase58, applied to short strings with and  *)
(* without characters outside the alphabet, and to the sample key strings.   *)
(***************************************************************************)
ReverseStrings == UNION {StringsOfLen(len) : len \in 0..MaxStr} \cup KeyStrings

InitReverse ==
  /\ call = [c \in Calls |-> IdleCall]
  /\ app = IdleApp
  /\ \E text \in ReverseStrings :
       codec = [IdleCodec EXCEPT !.phase = "encoded", !.str = text]

\* encodeBase58 applied to the bytes decodeBase58 returned.
Codec_encodeDecoded ==
  /\ codec.phase = "decoded"
  /\ ~codec.decoded.threw
  /\ codec' = [phase |-> "reencoded", bytes |-> codec.bytes, str |-> codec.str,
               decoded |-> codec.decoded,
               reencoded |-> encodeBase58(codec.decoded.bytes)]
  /\ UNCHANGED <<call, app>>

NextReverse == Codec_decodeBase58 \/ Codec_encodeDecoded

SpecReverse == InitReverse /\ [][NextReverse]_vars

\* C23: for every string s made only of alphabet characters, the empty string
\* and strings of only "1" included, decodeBase58(s) returns and
\* encodeBase58 of the bytes it returns is s; and no other string of the
\* inputs decodes to the same bytes.
C23_ReverseRoundTrip ==
  /\ (codec.phase = "decoded" /\ ~HasForeignChar(codec.str)) => ~codec.decoded.threw
  /\ codec.phase = "reencoded" =>
       /\ codec.reencoded = codec.str
       /\ \A other \in ReverseStrings :
            (~Decode(other).threw /\ Decode(other).bytes = codec.decoded.bytes)
              => other = codec.str

\* A string with a "1" after its leading "1" has gone through the reverse
\* round trip: it decoded to one zero byte and two more bytes.
C23_Witness ==
  /\ codec.phase = "reencoded"
  /\ codec.str = <<"1", "z", "1">>
  /\ codec.decoded.bytes[1] = 0 /\ Len(codec.decoded.bytes) = 3
  /\ codec.reencoded = codec.str

=============================================================================
